---- MODULE Spec2Model ----
(***************************************************************************)
(* A model of region-forge: the geometry engine (polygonUtils.ts), the     *)
(* region YAML exporters (exportUtils.ts), and the panels that drive them  *)
(* (AdvancedPanel.tsx, ExportPanel.tsx).                                   *)
(*                                                                         *)
(* Coordinates are exact.  A coordinate is an integer number of half       *)
(* blocks, so a block-aligned point has even coordinates and the midpoint  *)
(* (a + b) / 2 of two block-aligned points is again an integer.  Distances *)
(* are compared through their squares, as rationals, where the source      *)
(* compares floating point numbers.                                        *)
(***************************************************************************)
EXTENDS Integers, Sequences, FiniteSets, TLC

\* ------------------------------------------------------------------ bounds

\* Block coordinates of the input points range over 0..GridMax.
GridMax == 2
\* Input point sequences have at most MaxPoints points.
MaxPoints == 4
\* Tolerances range over -1..MaxTol half blocks.
MaxTol == 3
\* The region collection and an imported document hold at most MaxRegions regions.
MaxRegions == 2
\* At most MaxReads file reads are pending at a time.
MaxReads == 2
\* Spawn radii handed to the exporters are 0..MaxRadius.
MaxRadius == 1
\* Export times are 0..MaxClock.
MaxClock == 1
\* CSV files have up to MaxLines lines.
MaxLines == 3
\* Polygons given to a split have at most MaxSplitPoints vertices.
MaxSplitPoints == 6
\* At most MaxEvents option changes, outside writes and unmounts happen.
MaxEvents == 3
\* The x of a point tested in the number type is a quotient of whole numbers
\* with a divisor of at most MaxDivisor.
MaxDivisor == 3
\* A village file is chosen while the villages of the regions and the
\* village files being read are fewer than MaxVillages.
MaxVillages == 2

\* Half blocks per block: the divisor of the midpoint in doublePolygonVertices.
HalfUnits == 2

\* ------------------------------------------------------------------- state

\* createVillageSubregion generates at most maxAttempts new names.
maxAttempts == 100
\* createVillageSubregion appends the counters below maxCounter.
maxCounter == 1000
\* The heart cuboid of a region is heartSize blocks wide.
heartSize == 7
\* A number has a mantissa of mantissaBits binary digits.
mantissaBits == 53

VARIABLES
    points,             \* the point sequence a geometry function is given
    call,               \* the latest operation and its arguments
    ret,                \* what the latest operation returned or produced
    regions,            \* regions.regions: the region collection
    selectedRegionId,   \* regions.selectedRegionId
    worldType,          \* worldType.worldType
    spawnState,         \* spawn.spawnState: coordinates and radius
    options,            \* the export options of ExportPanel
    reads,              \* the file reads of importMapData still pending
    isImporting,        \* AdvancedPanel: isImporting
    importError,        \* AdvancedPanel: importError
    storage,            \* localStorage: the saved export settings
    isInitialized,      \* ExportPanel: isInitialized
    panel,              \* ExportPanel: mounted or not, its effects to run
    villageReads,       \* the reads of village files (file.text()) still pending
    isImportingVillages, \* AdvancedPanel: isImportingVillages
    villageImportError  \* AdvancedPanel: villageImportError

vars == <<points, call, ret, regions, selectedRegionId, worldType, spawnState,
          options, reads, isImporting, importError, storage, isInitialized,
          panel, villageReads, isImportingVillages, villageImportError>>

geomVars == <<points>>

villageVars == <<villageReads, isImportingVillages, villageImportError>>

panelVars == <<storage, isInitialized, panel, villageVars>>

appVars == <<regions, selectedRegionId, worldType, spawnState, options, reads,
             isImporting, importError, panelVars>>

\* -------------------------------------------------------------- data model

\* null, for an id or a message.
Null == "null"

NoCoordinates == [none |-> TRUE]

\* localStorage without the key of the export settings.
NoSettings == [none |-> TRUE]

\* No village file is being imported.
VillageImportIdle ==
    /\ villageReads = <<>>
    /\ isImportingVillages = FALSE
    /\ villageImportError = "null"

\* ExportPanel not mounted: no state, no effect to run, no event to handle.
PanelIdle ==
    /\ VillageImportIdle
    /\ storage = NoSettings
    /\ isInitialized = FALSE
    /\ panel = [mounted |-> FALSE, effects |-> <<>>, notifications |-> 0,
                events |-> 0]

NoCall == [fn |-> "none"]

NoRet == [none |-> TRUE]

ChallengeLevels == {"Vanilla", "Bronze", "Silver", "Gold", "Platinum"}

WorldTypes == {"overworld", "nether"}

\* Region ids are unique: generateId gives each region its own.
IdNames == <<"r1", "r2", "r3", "r4">>

RegionIds == {IdNames[i] : i \in 1..MaxRegions}

\* The initial option state of ExportPanel (its useState defaults).
DefaultOptions ==
    [includeVillages |-> FALSE,
     includeHeartRegions |-> FALSE,
     includeSpawnRegion |-> TRUE,
     useGreetingsAndFarewells |-> FALSE,
     greetingSize |-> "large",
     includeChallengeLevelSubheading |-> FALSE]

\* -------------------------------------------------------------- geometry

Pt(x, z) == [x |-> x, z |-> z]

GridCoords == {HalfUnits * k : k \in 0..GridMax}

GridPoints == {Pt(x, z) : x \in GridCoords, z \in GridCoords}

SeqsUpTo(S, n) == UNION {[1..k -> S] : k \in 0..n}

\* The element at a 0-based index, as the source indexes its arrays.
At(s, i) == s[i + 1]

\* The elements of s at the indices of the set I, in increasing index order.
RECURSIVE FilterIdx(_, _, _)
FilterIdx(s, I, i) ==
    IF i > Len(s) THEN <<>>
    ELSE (IF i \in I THEN <<s[i]>> ELSE <<>>) \o FilterIdx(s, I, i + 1)

\* doublePolygonVertices: every vertex followed by the midpoint of its edge.
Midpoint(a, b) == Pt((a.x + b.x) \div 2, (a.z + b.z) \div 2)

doublePolygonVertices(pts) ==
    IF Len(pts) < 2 THEN pts
    ELSE [k \in 1..(2 * Len(pts)) |->
            LET i == (k - 1) \div 2
                a == At(pts, i)
                b == At(pts, (i + 1) % Len(pts))
            IN IF (k - 1) % 2 = 0 THEN a ELSE Midpoint(a, b)]

\* The mutant keeps the midpoints instead of the vertices.
halvePolygonVerticesOdd(pts) ==
    IF Len(pts) <= 3 THEN pts
    ELSE FilterIdx(pts, {k \in 1..Len(pts) : (k - 1) % 2 = 1}, 1)

\* halvePolygonVertices: the even-indexed vertices, refilled to 3 from the odd.
halvePolygonVertices(pts) ==
    IF Len(pts) <= 3 THEN pts
    ELSE LET kept == FilterIdx(pts, {k \in 1..Len(pts) : (k - 1) % 2 = 0}, 1)
             needed == 3 - Len(kept)
         IN IF Len(kept) < 3
            THEN kept \o [i \in 1..needed |-> At(pts, (2 * (i - 1) + 1) % Len(pts))]
            ELSE kept

\* ------------------------------------------------ vertex density harness

\* The panels at rest: what a geometry harness leaves untouched.
AppIdle ==
    /\ regions = <<>>
    /\ selectedRegionId = Null
    /\ worldType = "overworld"
    /\ spawnState = [coordinates |-> NoCoordinates, radius |-> 0]
    /\ options = DefaultOptions
    /\ reads = <<>>
    /\ isImporting = FALSE
    /\ importError = Null
    /\ PanelIdle

InitGeom ==
    /\ points \in SeqsUpTo(GridPoints, MaxPoints)
    /\ call = NoCall
    /\ ret = NoRet
    /\ AppIdle

CallDouble ==
    /\ call = NoCall
    /\ call' = [fn |-> "doublePolygonVertices"]
    /\ ret' = doublePolygonVertices(points)
    /\ UNCHANGED <<points, appVars>>

CallHalve ==
    /\ call = NoCall
    /\ call' = [fn |-> "halvePolygonVertices"]
    /\ ret' = halvePolygonVertices(points)
    /\ UNCHANGED <<points, appVars>>

\* The round trip: halvePolygonVertices applied to the doubled polygon.
CallDoubleThenHalve ==
    /\ call = NoCall
    /\ call' = [fn |-> "halve(double)"]
    /\ ret' = halvePolygonVertices(doublePolygonVertices(points))
    /\ UNCHANGED <<points, appVars>>

NextDensity == CallDouble \/ CallHalve \/ CallDoubleThenHalve

SpecDensity == InitGeom /\ [][NextDensity]_vars

\* C4: for every polygon P with N >= 3 vertices, halving the doubled polygon
\* gives exactly N vertices, the i-th equal to the i-th vertex of P.
C4_HalveDoubleIdentity ==
    (call.fn = "halve(double)" /\ Len(points) >= 3) =>
        /\ Len(ret) = Len(points)
        /\ \A i \in 1..Len(points) : ret[i] = points[i]

C4_Witness ==
    /\ call.fn = "halve(double)"
    /\ Len(points) = MaxPoints
    /\ \A i, j \in 1..Len(points) : i # j => points[i] # points[j]
    /\ ret = points

\* ------------------------------------------------------------ splitPolygon

\* The first branch of splitPolygon: points.length < 3.
splitTooFew(pts) == Len(pts) < 3

\* The side of a point relative to the line a x + b z + c = 0 through the two
\* split points (a = dz, b = -dx).
side(p, s1, s2) ==
    LET dx == s2.x - s1.x
        dz == s2.z - s1.z
        a == dz
        b == 0 - dx
        c == 0 - (a * s1.x + b * s1.z)
    IN a * p.x + b * p.z + c

\* goesLeft with the points on the line sent to rightPoints.
goesLeftStrict(p, s1, s2) ==
    IF s2.x - s1.x = 0 THEN p.x < s1.x ELSE side(p, s1, s2) < 0

\* Whether a point goes to leftPoints: x <= xLine on a vertical line (|dx| <
\* 1e-10, which for these coordinates is dx = 0), side <= 0 otherwise.
goesLeft(p, s1, s2) ==
    IF s2.x - s1.x = 0 THEN p.x <= s1.x ELSE side(p, s1, s2) <= 0

splitPolygon(pts, s1, s2) ==
    IF splitTooFew(pts) THEN <<pts, <<>>>>
    ELSE LET leftPoints == FilterIdx(pts, {k \in 1..Len(pts) : goesLeft(pts[k], s1, s2)}, 1)
             rightPoints == FilterIdx(pts, {k \in 1..Len(pts) : ~goesLeft(pts[k], s1, s2)}, 1)
         IN IF s2.x - s1.x = 0
            THEN <<leftPoints, rightPoints>>
            ELSE IF Len(leftPoints) < 3 \/ Len(rightPoints) < 3
                 THEN <<pts, <<>>>>
                 ELSE <<leftPoints, rightPoints>>

CallSplit(s1, s2) ==
    /\ call = NoCall
    /\ call' = [fn |-> "splitPolygon", splitPoint1 |-> s1, splitPoint2 |-> s2]
    /\ ret' = splitPolygon(points, s1, s2)
    /\ UNCHANGED <<points, appVars>>

NextSplit == \E s1, s2 \in GridPoints : CallSplit(s1, s2)

SpecSplit == InitGeom /\ [][NextSplit]_vars

\* C3: splitPolygon returns [original, []] whenever a side of the line would
\* receive fewer than 3 points; whenever the second returned sequence is not
\* empty, both returned sequences have at least 3 points (vertical split
\* lines included).
C3_SplitRejectsSmallHalves ==
    (call.fn = "splitPolygon" /\ ret[2] # <<>>) =>
        (Len(ret[1]) >= 3 /\ Len(ret[2]) >= 3)

\* ------------------------------------------------- simplifyPolygonVertices

\* perpendicularDistance(p, a, b), squared, as the fraction num / den: the
\* distance to a when a = b, else the distance to the line through a and b.
perpDistNum(p, a, b) ==
    LET dx == b.x - a.x
        dz == b.z - a.z
        cross == (p.x - a.x) * dz - (p.z - a.z) * dx
    IN IF dx = 0 /\ dz = 0
       THEN (p.x - a.x) * (p.x - a.x) + (p.z - a.z) * (p.z - a.z)
       ELSE cross * cross

perpDistDen(a, b) ==
    LET dx == b.x - a.x
        dz == b.z - a.z
    IN IF dx = 0 /\ dz = 0 THEN 1 ELSE dx * dx + dz * dz

\* The index the loop of rdp ends with: the first interior index whose
\* distance is the greatest, when that distance is positive; -1 otherwise.
\* (Indices are 0-based, as in the source.)
rdpIndex(pts, first, last) ==
    LET inner == (first + 1)..(last - 1)
        d(i) == perpDistNum(At(pts, i), At(pts, first), At(pts, last))
        best == {i \in inner : /\ d(i) > 0
                               /\ \A j \in inner : d(j) <= d(i)
                               /\ \A j \in inner : j < i => d(j) < d(i)}
    IN IF best = {} THEN 0 - 1 ELSE CHOOSE i \in best : TRUE

\* The mutant compares the wrong way round: maxDist < eps.
rdpExceedsInverted(pts, first, last, index, eps) ==
    perpDistNum(At(pts, index), At(pts, first), At(pts, last))
        < eps * eps * perpDistDen(At(pts, first), At(pts, last))

\* maxDist > eps, for the index found.
rdpExceeds(pts, first, last, index, eps) ==
    perpDistNum(At(pts, index), At(pts, first), At(pts, last))
        > eps * eps * perpDistDen(At(pts, first), At(pts, last))

\* rdp: the indices it sets in keep.
RECURSIVE rdp(_, _, _, _)
rdp(pts, first, last, eps) ==
    LET index == rdpIndex(pts, first, last)
    IN IF index # 0 - 1 /\ rdpExceeds(pts, first, last, index, eps)
       THEN {index} \cup rdp(pts, first, index, eps) \cup rdp(pts, index, last, eps)
       ELSE {}

\* The indices with keepFlags set after the run of rdp over the open ring.
keepFlags(pts, tolerance) ==
    LET eps == IF tolerance > 0 THEN tolerance ELSE 0
    IN {0, Len(pts) - 1} \cup rdp(pts, 0, Len(pts) - 1, eps)

\* The mutant drops the fall back to the input.
simplifyNoFallback(pts, tolerance) ==
    IF Len(pts) <= 3 THEN pts
    ELSE FilterIdx(pts, {k \in 1..Len(pts) : (k - 1) \in keepFlags(pts, tolerance)}, 1)

simplifyPolygonVertices(pts, tolerance) ==
    IF Len(pts) <= 3 THEN pts
    ELSE LET simplified ==
                 FilterIdx(pts, {k \in 1..Len(pts) : (k - 1) \in keepFlags(pts, tolerance)}, 1)
         IN IF Len(simplified) < 3 THEN pts ELSE simplified

Tolerances == (0 - 1)..MaxTol

CallSimplify(tolerance) ==
    /\ call = NoCall
    /\ call' = [fn |-> "simplifyPolygonVertices", tolerance |-> tolerance]
    /\ ret' = simplifyPolygonVertices(points, tolerance)
    /\ UNCHANGED <<points, appVars>>

NextSimplify == \E tolerance \in Tolerances : CallSimplify(tolerance)

SpecSimplify == InitGeom /\ [][NextSimplify]_vars

\* s is an order-preserving subsequence of t.
RECURSIVE IsSubseq(_, _)
IsSubseq(s, t) ==
    IF s = <<>> THEN TRUE
    ELSE IF t = <<>> THEN FALSE
    ELSE IF Head(s) = Head(t) THEN IsSubseq(Tail(s), Tail(t))
    ELSE IsSubseq(s, Tail(t))

C6_SimplifySubsequence ==
    call.fn = "simplifyPolygonVertices" =>
        /\ \/ ret = points
           \/ /\ IsSubseq(ret, points)
              /\ Len(ret) >= 3
              /\ ret[1] = points[1]
              /\ ret[Len(ret)] = points[Len(points)]
        /\ Len(points) <= 3 => ret = points

C6_Witness ==
    /\ call.fn = "simplifyPolygonVertices"
    /\ ret # points
    /\ Len(ret) = 3
    /\ call.tolerance > 0

\* -------------------------------------------------------- isPointInPolygon

\* The test of one edge (polygon[i], polygon[j]), 0-based: the edge straddles
\* the height of the point, and the point lies left of the edge at that height:
\*   point.x < (xj - xi) * (point.z - zi) / (zj - zi) + xi
\* which, zj - zi being non-zero here, is compared after multiplying by it.
edgeToggles(point, polygon, i, j) ==
    LET pi == At(polygon, i)
        pj == At(polygon, j)
        dz == pj.z - pi.z
        lhs == (point.x - pi.x) * dz
        rhs == (pj.x - pi.x) * (point.z - pi.z)
    IN /\ (pi.z > point.z) # (pj.z > point.z)
       /\ IF dz > 0 THEN lhs < rhs ELSE lhs > rhs

\* The mutant starts j at 0 instead of length - 1: the closing edge is missed.
isPointInPolygonOpen(point, polygon) ==
    LET n == Len(polygon)
        toggles == {i \in 1..(n - 1) : edgeToggles(point, polygon, i, i - 1)}
    IN Cardinality(toggles) % 2 = 1

\* isPointInPolygon: inside is toggled once per edge that passes the test; j
\* is length - 1 for i = 0 and i - 1 afterwards.
isPointInPolygon(point, polygon) ==
    LET n == Len(polygon)
        prev(i) == IF i = 0 THEN n - 1 ELSE i - 1
        toggles == {i \in 0..(n - 1) : edgeToggles(point, polygon, i, prev(i))}
    IN Cardinality(toggles) % 2 = 1

\* Test points: every half block position of the grid and a margin around it.
TestPoints ==
    LET c == (0 - 1)..(HalfUnits * GridMax + 1)
    IN {Pt(x, z) : x \in c, z \in c}

CallIsPointInPolygon(point) ==
    /\ call = NoCall
    /\ call' = [fn |-> "isPointInPolygon", point |-> point]
    /\ ret' = isPointInPolygon(point, points)
    /\ UNCHANGED <<points, appVars>>

NextPip == \E point \in TestPoints : CallIsPointInPolygon(point)

SpecPip == InitGeom /\ [][NextPip]_vars

\* Plane geometry for the ground truth, in integers.
Cross(o, a, b) == (a.x - o.x) * (b.z - o.z) - (a.z - o.z) * (b.x - o.x)

Sgn(v) == IF v > 0 THEN 1 ELSE IF v < 0 THEN 0 - 1 ELSE 0

Between(lo, v, hi) == (lo <= v /\ v <= hi) \/ (hi <= v /\ v <= lo)

\* p lies on the closed segment a b.
OnSegment(p, a, b) ==
    /\ Cross(a, b, p) = 0
    /\ Between(a.x, p.x, b.x)
    /\ Between(a.z, p.z, b.z)

\* The closed segments a b and c d have a point in common.
SegmentsMeet(a, b, c, d) ==
    \/ /\ Sgn(Cross(a, b, c)) * Sgn(Cross(a, b, d)) < 0
       /\ Sgn(Cross(c, d, a)) * Sgn(Cross(c, d, b)) < 0
    \/ OnSegment(c, a, b)
    \/ OnSegment(d, a, b)
    \/ OnSegment(a, c, d)
    \/ OnSegment(b, c, d)

\* A simple polygon: at least 3 vertices, edges that follow one another meet
\* in their common vertex only, and no other two edges meet.
IsSimple(polygon) ==
    LET n == Len(polygon)
        v(i) == At(polygon, i % n)
    IN /\ n >= 3
       /\ \A i \in 0..(n - 1) : v(i) # v(i + 1)
       /\ \A i \in 0..(n - 1) :
            /\ ~OnSegment(v(i + 2), v(i), v(i + 1))
            /\ ~OnSegment(v(i), v(i + 1), v(i + 2))
       /\ \A i, k \in 0..(n - 1) :
            (k > i + 1 /\ (k + 1) % n # i) =>
                ~SegmentsMeet(v(i), v(i + 1), v(k), v(k + 1))

OnBoundary(p, polygon) ==
    LET n == Len(polygon)
    IN \E i \in 0..(n - 1) : OnSegment(p, At(polygon, i), At(polygon, (i + 1) % n))

\* The ray from p toward +x, tilted by one half block in z over RayRun half
\* blocks in x.  RayRun is longer than twice the width of the test area, so
\* the ray passes through no lattice point of the area other than p, and it
\* meets an edge only in the interior of the edge.
RayRun == 4 * (HalfUnits * GridMax + 3)

RayEnd(p) == Pt(p.x + RayRun * RayRun, p.z + RayRun)

\* The ground truth of the even-odd rule: the number of edges the tilted ray
\* crosses is odd.
InsideByRay(p, polygon) ==
    LET n == Len(polygon)
        crossed == {i \in 0..(n - 1) :
            LET a == At(polygon, i)
                b == At(polygon, (i + 1) % n)
            IN /\ Sgn(Cross(p, RayEnd(p), a)) * Sgn(Cross(p, RayEnd(p), b)) < 0
               /\ Sgn(Cross(a, b, p)) * Sgn(Cross(a, b, RayEnd(p))) < 0}
    IN Cardinality(crossed) % 2 = 1

\* What holds of points on whole and half blocks, where the arithmetic of
\* the edge test is exact: for every simple polygon on the grid, in either
\* winding order, and every point strictly inside or strictly outside it,
\* isPointInPolygon is true exactly when the point is inside.
PointInPolygonMatchesOnBlocks ==
    (/\ call.fn = "isPointInPolygon"
     /\ IsSimple(points)
     /\ ~OnBoundary(call.point, points)) =>
        (ret <=> InsideByRay(call.point, points))

\* A concave quadrilateral with the point inside, level with a vertex.
InsideConcaveLevelWithVertex ==
    /\ call.fn = "isPointInPolygon"
    /\ Len(points) = 4
    /\ IsSimple(points)
    /\ ~OnBoundary(call.point, points)
    /\ \E i \in 1..4 : LET a == points[i]
                           b == points[(i % 4) + 1]
                           c == points[((i + 1) % 4) + 1]
                           d == points[((i + 2) % 4) + 1]
                       IN Sgn(Cross(a, b, c)) * Sgn(Cross(c, d, a)) < 0
    /\ \E i \in 1..4 : points[i].z = call.point.z /\ points[i].x > call.point.x
    /\ ret = TRUE

\* ------------------------------------------------------ region collection

Triangle == <<Pt(0, 0), Pt(4, 0), Pt(0, 4)>>

\* A name is a sequence of characters. The names that are not spelled out
\* are the id taken as one character that is neither a letter nor whitespace.
UpperCase ==
    <<"A", "B", "C", "D", "E", "F", "G", "H", "I", "J", "K", "L", "M",
      "N", "O", "P", "Q", "R", "S", "T", "U", "V", "W", "X", "Y", "Z">>

LowerCase ==
    <<"a", "b", "c", "d", "e", "f", "g", "h", "i", "j", "k", "l", "m",
      "n", "o", "p", "q", "r", "s", "t", "u", "v", "w", "x", "y", "z">>

\* The characters the pattern \s matches, of those that names are made of.
Whitespace == {" ", "\t"}

\* String.toLowerCase, on a name.
toLowerCaseString(str) ==
    [i \in 1..Len(str) |->
        IF \E k \in 1..Len(UpperCase) : UpperCase[k] = str[i]
        THEN LowerCase[CHOOSE k \in 1..Len(UpperCase) : UpperCase[k] = str[i]]
        ELSE str[i]]

\* str.replace(/\s+/g, '_') from index i on: every maximal run of whitespace
\* becomes one underscore.
RECURSIVE replaceWhitespace(_, _)
replaceWhitespace(str, i) ==
    IF i > Len(str) THEN <<>>
    ELSE IF str[i] \notin Whitespace THEN <<str[i]>> \o replaceWhitespace(str, i + 1)
    ELSE IF i > 1 /\ str[i - 1] \in Whitespace THEN replaceWhitespace(str, i + 1)
    ELSE <<"_">> \o replaceWhitespace(str, i + 1)

\* name.toLowerCase().replace(/\s+/g, '_'): the key of a block.
nameForYAML(name) == replaceWhitespace(toLowerCaseString(name), 1)

\* String.includes.
includes(str, sub) ==
    \E i \in 0..(Len(str) - Len(sub)) : SubSeq(str, i + 1, i + Len(sub)) = sub

\* A region as the panels and exporters read it.
Region(id, pts, level, spawn, subs) ==
    [id |-> id, points |-> pts, challengeLevel |-> level, hasSpawn |-> spawn,
     subregions |-> subs, centerPoint |-> NoCoordinates, name |-> <<id>>]

\* The set of the elements of a sequence.
Range(s) == {s[i] : i \in 1..Len(s)}

\* The ids of the regions that have hasSpawn set.
SpawnIds(rs) == {rs[i].id : i \in {k \in 1..Len(rs) : rs[k].hasSpawn}}

\* updateRegion(id, updates) of the regions context, for one updated field:
\* the region with that id gets the new value, every other region is kept.
updateRegion(rs, id, field, value) ==
    [i \in 1..Len(rs) |->
        IF rs[i].id = id THEN [rs[i] EXCEPT ![field] = value] ELSE rs[i]]

\* replaceRegions(newRegions) of the regions context.
replaceRegions(rs, newRegions) == newRegions

\* The forEach of the Has Spawn handler over the collection it rendered with:
\* updateRegion(region.id, {hasSpawn: false}) for every other region that has
\* the flag, one after the other from index i on.
RECURSIVE uncheckOthers(_, _, _, _)
uncheckOthers(rs, snapshot, regionId, i) ==
    IF i > Len(snapshot) THEN rs
    ELSE uncheckOthers(
            IF snapshot[i].id # regionId /\ snapshot[i].hasSpawn
            THEN updateRegion(rs, snapshot[i].id, "hasSpawn", FALSE)
            ELSE rs,
            snapshot, regionId, i + 1)

\* The mutant updates the selected region only.
hasSpawnChangedNoUncheck(rs, regionId, checked) ==
    updateRegion(rs, regionId, "hasSpawn", checked)

\* The collection after the onChange handler of the Has Spawn checkbox.
hasSpawnChanged(rs, regionId, checked) ==
    updateRegion(IF checked THEN uncheckOthers(rs, rs, regionId, 1) ELSE rs,
                 regionId, "hasSpawn", checked)

\* --------------------------------------------------------- project import

\* The documents a selected file may hold: unreadable, not JSON, or a JSON
\* object with or without version, regions and mapState.  version, hasRegions
\* and mapState say whether the field is there with a value that counts as
\* true; regionsIsArray and mapStateIsObject say what kind of value it is.
Doc(readable, json, version, hasRegions, rs, mapState) ==
    [readable |-> readable, json |-> json, version |-> version,
     hasRegions |-> hasRegions, regions |-> rs, mapState |-> mapState,
     regionsIsArray |-> hasRegions, mapStateIsObject |-> mapState,
     exportDate |-> TRUE, worldName |-> Null]

\* Region lists of exported projects, which differ in their hasSpawn flags.
ImportedRegionLists ==
    UNION {{[i \in 1..n |-> Region(IdNames[i], Triangle, "Vanilla", f[i], <<>>)] :
                f \in [1..n -> BOOLEAN]} : n \in 0..MaxRegions}

ImportDocs ==
    {Doc(TRUE, TRUE, TRUE, TRUE, rs, TRUE) : rs \in ImportedRegionLists}
        \cup {Doc(FALSE, FALSE, FALSE, FALSE, <<>>, FALSE),
              Doc(TRUE, FALSE, FALSE, FALSE, <<>>, FALSE),
              Doc(TRUE, TRUE, FALSE, TRUE, <<>>, TRUE),
              Doc(TRUE, TRUE, TRUE, FALSE, <<>>, TRUE),
              Doc(TRUE, TRUE, TRUE, TRUE, <<>>, FALSE)}

\* importMapData: how the promise settles for a document.
importMapData(doc) ==
    IF ~doc.readable
    THEN [ok |-> FALSE, message |-> "Failed to read import file", regions |-> <<>>,
          worldName |-> Null]
    ELSE IF ~doc.json \/ ~doc.version \/ ~doc.hasRegions \/ ~doc.mapState
    THEN [ok |-> FALSE, message |-> "Failed to parse import file", regions |-> <<>>,
          worldName |-> Null]
    ELSE [ok |-> TRUE, message |-> Null, regions |-> doc.regions,
          worldName |-> IF doc.worldName = Null THEN "world" ELSE doc.worldName]

\* ------------------------------------------------------------- the panels

Init ==
    /\ points = <<>>
    /\ call = NoCall
    /\ ret = NoRet
    /\ AppIdle

\* A region of the list is selected (the region list of the side panel).
SelectRegion(id) ==
    /\ id \in {regions[i].id : i \in 1..Len(regions)}
    /\ selectedRegionId' = id
    /\ call' = [fn |-> "setSelectedRegionId"]
    /\ UNCHANGED <<points, ret, regions, worldType, spawnState, options, panelVars, reads,
                   isImporting, importError>>

\* The Overworld and Nether buttons.
SetWorldType(w) ==
    /\ worldType' = w
    /\ call' = [fn |-> "setWorldType"]
    /\ UNCHANGED <<points, ret, regions, selectedRegionId, spawnState, options, panelVars,
                   reads, isImporting, importError>>

\* The Challenge Level select of the selected region.
ChallengeLevelOnChange(level) ==
    /\ selectedRegionId # Null
    /\ regions' = updateRegion(regions, selectedRegionId, "challengeLevel", level)
    /\ call' = [fn |-> "challengeLevelChange"]
    /\ UNCHANGED <<points, ret, selectedRegionId, worldType, spawnState, options, panelVars,
                   reads, isImporting, importError>>

\* The Has Spawn checkbox of the selected region, shown outside the nether; a
\* click hands the handler the negation of what the box shows.
HasSpawnOnChange ==
    /\ selectedRegionId # Null
    /\ worldType # "nether"
    /\ LET shown == selectedRegionId \in SpawnIds(regions)
           checked == ~shown
       IN /\ regions' = hasSpawnChanged(regions, selectedRegionId, checked)
          /\ call' = [fn |-> "hasSpawnChange", regionId |-> selectedRegionId,
                      checked |-> checked, before |-> SpawnIds(regions)]
    /\ UNCHANGED <<points, ret, selectedRegionId, worldType, spawnState, options, panelVars,
                   reads, isImporting, importError>>

\* handleImport up to its await: a file is chosen and its read starts.
HandleImport(doc) ==
    /\ Len(reads) < MaxReads
    /\ isImporting' = TRUE
    /\ importError' = Null
    /\ reads' = Append(reads, doc)
    /\ call' = [fn |-> "handleImport"]
    /\ UNCHANGED <<points, ret, regions, selectedRegionId, worldType, spawnState,
                   options, panelVars>>

\* The sequence s without its i-th element.
RemoveAt(s, i) == [k \in 1..(Len(s) - 1) |-> IF k < i THEN s[k] ELSE s[k + 1]]

\* ImportSettles with the selection cleared also when the import failed.
ImportSettlesClearsSelection(i) ==
    /\ i \in 1..Len(reads)
    /\ LET importData == importMapData(reads[i])
       IN /\ IF importData.ok
             THEN /\ regions' = replaceRegions(regions, importData.regions)
                  /\ selectedRegionId' = Null
                  /\ UNCHANGED importError
             ELSE /\ importError' = importData.message
                  /\ selectedRegionId' = Null
                  /\ UNCHANGED regions
          /\ call' = [fn |-> "importSettled", ok |-> importData.ok,
                      read |-> i]
    /\ isImporting' = FALSE
    /\ reads' = RemoveAt(reads, i)
    /\ UNCHANGED <<points, ret, worldType, spawnState, options, panelVars>>

\* ImportSettles with every other pending read abandoned.
ImportSettlesDropsPending(i) ==
    /\ i \in 1..Len(reads)
    /\ LET importData == importMapData(reads[i])
       IN /\ IF importData.ok
             THEN /\ regions' = replaceRegions(regions, importData.regions)
                  /\ selectedRegionId' = Null
                  /\ UNCHANGED importError
             ELSE /\ importError' = importData.message
                  /\ UNCHANGED <<regions, selectedRegionId>>
          /\ call' = [fn |-> "importSettled", ok |-> importData.ok,
                      read |-> i]
    /\ isImporting' = FALSE
    /\ reads' = <<>>
    /\ UNCHANGED <<points, ret, worldType, spawnState, options, panelVars>>

\* A pending read settles and handleImport runs on from its await: the regions
\* are replaced and the selection cleared, or the error is kept; isImporting is
\* reset in either case.
ImportSettles(i) ==
    /\ i \in 1..Len(reads)
    /\ LET importData == importMapData(reads[i])
       IN /\ IF importData.ok
             THEN /\ regions' = replaceRegions(regions, importData.regions)
                  /\ selectedRegionId' = Null
                  /\ UNCHANGED importError
             ELSE /\ importError' = importData.message
                  /\ UNCHANGED <<regions, selectedRegionId>>
          /\ call' = [fn |-> "importSettled", ok |-> importData.ok,
                      read |-> i]
    /\ isImporting' = FALSE
    /\ reads' = RemoveAt(reads, i)
    /\ UNCHANGED <<points, ret, worldType, spawnState, options, panelVars>>

Next ==
    \/ \E id \in RegionIds : SelectRegion(id)
    \/ \E w \in WorldTypes : SetWorldType(w)
    \/ \E level \in ChallengeLevels : ChallengeLevelOnChange(level)
    \/ HasSpawnOnChange
    \/ \E doc \in ImportDocs : HandleImport(doc)
    \/ \E i \in 1..MaxReads : ImportSettles(i)

Spec == Init /\ [][Next]_vars

\* C1: a Has Spawn change on the selected region, from a collection in which
\* at most one region has hasSpawn, leaves at most one region with hasSpawn;
\* checking it on region B while region A has it leaves exactly B with it.
C1_SpawnToggleKeepsAtMostOne ==
    (call.fn = "hasSpawnChange" /\ Cardinality(call.before) <= 1) =>
        /\ Cardinality(SpawnIds(regions)) <= 1
        /\ call.checked => SpawnIds(regions) = {call.regionId}

\* Checked on one region while another one had the flag.
C1_Witness ==
    /\ call.fn = "hasSpawnChange"
    /\ call.checked
    /\ Cardinality(call.before) = 1
    /\ call.regionId \notin call.before
    /\ SpawnIds(regions) = {call.regionId}

\* C2: in every state reached through hasSpawn changes, other field edits and
\* project imports, at most one region has hasSpawn.
C2_AtMostOneSpawn == Cardinality(SpawnIds(regions)) <= 1

\* -------------------------------------------------------------- exporters

\* A village subregion of a region.
Village(id, parentRegionId) ==
    [id |-> id, type |-> "village", parentRegionId |-> parentRegionId,
     name |-> <<id>>]

VillageNames == <<"v1", "v2", "v3", "v4">>

\* Two points only: a polygon still being drawn.
Segment == <<Pt(0, 0), Pt(4, 0)>>

\* The sequences s[1] \o s[2] \o ... of a sequence of sequences, from i on.
RECURSIVE Flatten(_, _)
Flatten(s, i) == IF i > Len(s) THEN <<>> ELSE s[i] \o Flatten(s, i + 1)

\* The spawnCoordinates argument is an object, not null.
HasCoordinates(c) == "x" \in DOMAIN c

\* spawnCoordinates.radius is there and is not zero.
HasRadius(c) == "radius" \in DOMAIN c /\ c.radius # 0

\* One line of a title: the letter of its colour code, a text with the place
\* of the name in it, and the name.
Line(color, text, name) == [color |-> color, text |-> text, name |-> name]

\* The flags of a block, as far as its titles go: written on lines of their
\* own ("lines"), inside braces ("inline"), or no title at all ("none").
Flags(layout, greetingTitle, farewellTitle) ==
    [layout |-> layout, greetingTitle |-> greetingTitle,
     farewellTitle |-> farewellTitle]

\* generateSubregionYAML: the cuboid block of a village, under its parent.
generateSubregionYAML(subregion, region, useGreetingsAndFarewells, greetingSize) ==
    [kind |-> "village", type |-> "cuboid", priority |-> 10,
     region |-> region.id, village |-> subregion.id,
     key |-> nameForYAML(subregion.name),
     parent |-> nameForYAML(region.name),
     flags |->
        IF useGreetingsAndFarewells
        THEN IF greetingSize = "large"
             THEN Flags("lines",
                        <<Line("f", "Welcome to <name> village", subregion.name),
                          Line("f", "", <<>>)>>,
                        <<Line("f", "Leaving <name> village", subregion.name),
                          Line("f", "", <<>>)>>)
             ELSE Flags("lines",
                        <<Line("f", "", <<>>),
                          Line("f", "Welcome to <name> village", subregion.name)>>,
                        <<Line("f", "", <<>>),
                          Line("f", "Leaving <name> village", subregion.name)>>)
        ELSE Flags("none", <<>>, <<>>)]

\* getChallengeLevelColor: the colour code and the text of a challenge level
\* (the dash of the Gold text is written as a hyphen).
getChallengeLevelColor(challengeLevel) ==
    CASE challengeLevel = "Vanilla" -> Line("a", "A safe haven from stronger mobs", <<>>)
      [] challengeLevel = "Bronze" -> Line("e", "Mobs here are a little bit stronger", <<>>)
      [] challengeLevel = "Silver" -> Line("6", "Mobs put up a decent fight here", <<>>)
      [] challengeLevel = "Gold" -> Line("c", "Mobs here hit hard - be ready", <<>>)
      [] challengeLevel = "Platinum" -> Line("4", "Mobs here are extremely dangerous", <<>>)
      [] OTHER -> Line("a", "Mobs here fight as usual", <<>>)

\* The name does not hold "spawn", "heart" or "village" in any case of
\* letters.
isMainRegion(region) ==
    /\ ~includes(toLowerCaseString(region.name), <<"s", "p", "a", "w", "n">>)
    /\ ~includes(toLowerCaseString(region.name), <<"h", "e", "a", "r", "t">>)
    /\ ~includes(toLowerCaseString(region.name),
                 <<"v", "i", "l", "l", "a", "g", "e">>)

\* The flags generateRegionYAML writes in the block of the region.
regionFlags(region, wt, useGreetingsAndFarewells, greetingSize, includeChallengeLevelSubheading) ==
    LET greetingText ==
            IF wt = "nether" THEN "You descend into <name>" ELSE "Welcome to <name>"
    IN IF ~useGreetingsAndFarewells THEN Flags("none", <<>>, <<>>)
       ELSE IF isMainRegion(region) /\ region.challengeLevel # Null
       THEN LET challengeColor ==
                    IF includeChallengeLevelSubheading /\ greetingSize = "large"
                    THEN getChallengeLevelColor(region.challengeLevel)
                    ELSE Line("f", "", <<>>)
            IN IF greetingSize = "large"
               THEN Flags("lines",
                          <<Line("f", greetingText, region.name), challengeColor>>,
                          <<Line("f", "Leaving <name>", region.name),
                            Line("f", "", <<>>)>>)
               ELSE Flags("lines",
                          <<Line("f", "", <<>>),
                            Line("f", greetingText, region.name)>>,
                          <<Line("f", "", <<>>),
                            Line("f", "Leaving <name>", region.name)>>)
       ELSE Flags("inline",
                  <<Line("", greetingText, region.name)>>,
                  <<Line("", "Leaving <name>.", region.name)>>)

\* A point with fractional coordinates: x / den and z / den, den > 0.
Center(x, z, den) == [x |-> x, z |-> z, den |-> den]

\* The sums of the x and of the z coordinates of the points from index i on.
RECURSIVE sumPoints(_, _)
sumPoints(pts, i) ==
    IF i > Len(pts) THEN Pt(0, 0)
    ELSE Pt(pts[i].x + sumPoints(pts, i + 1).x, pts[i].z + sumPoints(pts, i + 1).z)

\* calculatePolygonCenter: the mean of the points; (0, 0) for no points.
calculatePolygonCenter(pts) ==
    IF Len(pts) = 0 THEN Center(0, 0, 1)
    ELSE IF Len(pts) = 1 THEN Center(pts[1].x, pts[1].z, 1)
    ELSE Center(sumPoints(pts, 1).x, sumPoints(pts, 1).z, Len(pts))

\* calculateRegionCenter: the custom center point when the region has one.
calculateRegionCenter(region) ==
    IF "x" \in DOMAIN region.centerPoint
    THEN region.centerPoint
    ELSE calculatePolygonCenter(region.points)

\* Rounding of num / den to the nearest integer, halves away from zero.
mathRoundHalfAwayFromZero(num, den) ==
    IF num >= 0 THEN (2 * num + den) \div (2 * den)
    ELSE 0 - ((2 * (0 - num) + den) \div (2 * den))

\* Math.round(num / den): the nearest integer, halves towards plus infinity.
mathRound(num, den) == (2 * num + den) \div (2 * den)

\* generateRegionYAML: the poly2d block of the region, then its heart cuboid
\* when heart regions are included, then one cuboid per subregion when
\* villages are included.
generateRegionYAML(region, includeVillages, includeHeartRegions, wt, useGreetingsAndFarewells, greetingSize, includeChallengeLevelSubheading) ==
    <<[kind |-> "region", type |-> "poly2d", priority |-> 0,
       region |-> region.id, points |-> region.points,
       key |-> nameForYAML(region.name),
       flags |-> regionFlags(region, wt, useGreetingsAndFarewells, greetingSize,
                             includeChallengeLevelSubheading)]>>
    \o (IF includeHeartRegions
        THEN LET regionCenter == calculateRegionCenter(region)
                 half == heartSize \div 2
             IN <<[kind |-> "heart", type |-> "cuboid", priority |-> 10,
                   region |-> region.id,
                   key |-> <<"h", "e", "a", "r", "t", "_", "o", "f", "_">>
                               \o nameForYAML(region.name),
                   flags |-> IF useGreetingsAndFarewells
                             THEN Flags("inline",
                                        <<Line("", "Heart of <name>", region.name)>>,
                                        <<>>)
                             ELSE Flags("none", <<>>, <<>>),
                   min |-> Pt(mathRound(regionCenter.x - half * regionCenter.den,
                                        regionCenter.den),
                              mathRound(regionCenter.z - half * regionCenter.den,
                                        regionCenter.den)),
                   max |-> Pt(mathRound(regionCenter.x + half * regionCenter.den,
                                        regionCenter.den),
                              mathRound(regionCenter.z + half * regionCenter.den,
                                        regionCenter.den))]>>
        ELSE <<>>)
    \o (IF includeVillages /\ Len(region.subregions) > 0
        THEN [i \in 1..Len(region.subregions) |->
                 generateSubregionYAML(region.subregions[i], region,
                                       useGreetingsAndFarewells, greetingSize)]
        ELSE <<>>)

\* generateSpawnRegionYAML: the spawn cuboid around the spawn point.
generateSpawnRegionYAML(spawnCoordinates) ==
    [kind |-> "spawn", type |-> "cuboid", priority |-> 10,
     key |-> <<"s", "p", "a", "w", "n">>,
     min |-> Pt(spawnCoordinates.x - spawnCoordinates.radius,
                spawnCoordinates.z - spawnCoordinates.radius),
     max |-> Pt(spawnCoordinates.x + spawnCoordinates.radius,
                spawnCoordinates.z + spawnCoordinates.radius)]

Toast(message, type) == [message |-> message, type |-> type]

Download(filename, content) == [filename |-> filename, content |-> content]

\* What an exporter did: the notifications it showed and the files it offered.
Effects(toasts, downloads) == [toasts |-> toasts, downloads |-> downloads]

\* The blocks of all regions, in region order.
regionBlocks(rs, includeVillages, includeHeartRegions, wt, useGreetingsAndFarewells, greetingSize, includeChallengeLevelSubheading) ==
    Flatten([i \in 1..Len(rs) |->
                generateRegionYAML(rs[i], includeVillages, includeHeartRegions, wt,
                                   useGreetingsAndFarewells, greetingSize,
                                   includeChallengeLevelSubheading)], 1)

\* exportRegionsYAML with the spawn block written after the region blocks.
exportRegionsYAMLSpawnLast(rs, includeVillages, includeHeartRegions, includeSpawnRegion, spawnCoordinates, wt, useGreetingsAndFarewells, greetingSize, includeChallengeLevelSubheading) ==
    IF Len(rs) = 0 /\ (~includeSpawnRegion \/ wt = "nether")
    THEN Effects(<<Toast(<<"No regions to export">>, "error")>>, <<>>)
    ELSE Effects(<<>>,
             <<Download(<<"regions.yml">>,
                   regionBlocks(rs, includeVillages, includeHeartRegions, wt,
                                useGreetingsAndFarewells, greetingSize,
                                includeChallengeLevelSubheading)
                   \o (IF /\ includeSpawnRegion
                          /\ HasCoordinates(spawnCoordinates)
                          /\ HasRadius(spawnCoordinates)
                          /\ wt # "nether"
                       THEN <<generateSpawnRegionYAML(spawnCoordinates)>>
                       ELSE <<>>))>>)

\* exportRegionsYAML: an error notification when there is nothing to write,
\* else the file regions.yml with the spawn block, if any, ahead of the
\* blocks of the regions.
exportRegionsYAML(rs, includeVillages, includeHeartRegions, includeSpawnRegion, spawnCoordinates, wt, useGreetingsAndFarewells, greetingSize, includeChallengeLevelSubheading) ==
    IF Len(rs) = 0 /\ (~includeSpawnRegion \/ wt = "nether")
    THEN Effects(<<Toast(<<"No regions to export">>, "error")>>, <<>>)
    ELSE Effects(<<>>,
             <<Download(<<"regions.yml">>,
                   (IF /\ includeSpawnRegion
                       /\ HasCoordinates(spawnCoordinates)
                       /\ HasRadius(spawnCoordinates)
                       /\ wt # "nether"
                    THEN <<generateSpawnRegionYAML(spawnCoordinates)>>
                    ELSE <<>>)
                   \o regionBlocks(rs, includeVillages, includeHeartRegions, wt,
                                useGreetingsAndFarewells, greetingSize,
                                includeChallengeLevelSubheading))>>)

\* villagesOf without the test of the subregion's type.
villagesOfAnyType(region) == region.subregions

\* The village subregions of a region, in order.
villagesOf(region) ==
    FilterIdx(region.subregions,
              {i \in 1..Len(region.subregions) :
                   region.subregions[i].type = "village"}, 1)

\* str.replace(/\s+/g, '') from index i on: whitespace is dropped.
RECURSIVE removeWhitespace(_, _)
removeWhitespace(str, i) ==
    IF i > Len(str) THEN <<>>
    ELSE (IF str[i] \in Whitespace THEN <<>> ELSE <<str[i]>>)
             \o removeWhitespace(str, i + 1)

Discover == <<"d", "i", "s", "c", "o", "v", "e", "r">>

DiscoverHeartOf ==
    Discover \o <<"H", "e", "a", "r", "t", "O", "f">>

DiscoverOnce ==
    <<"_", "d", "i", "s", "c", "o", "v", "e", "r", "_", "o", "n", "c", "e">>

\* The key of the achievement of a region or village: discover<Name>.
achievementKey(name) == Discover \o removeWhitespace(name, 1)

\* The key of the achievement of a heart: discoverHeartOf<Name>.
heartAchievementKey(name) == DiscoverHeartOf \o removeWhitespace(name, 1)

\* The entries of one region in achievements.yml: the region's, its heart's,
\* then one per village.
achievementEntries(region) ==
    <<[kind |-> "region", region |-> region.id,
       key |-> achievementKey(region.name)],
      [kind |-> "heart", region |-> region.id,
       key |-> heartAchievementKey(region.name)]>>
    \o [i \in 1..Len(villagesOf(region)) |->
           [kind |-> "village", region |-> region.id,
            village |-> villagesOf(region)[i].id,
            key |-> achievementKey(villagesOf(region)[i].name)]]

\* The achievement of the "aach give" command of an event, written with the
\* name in lower case and underscores.
givenAchievementSnake(name) == Discover \o nameForYAML(name)

\* The achievement of the "aach give" command of the event of a region or
\* village: discover<Name>.
givenAchievement(name) == Discover \o removeWhitespace(name, 1)

\* The achievement of the "aach give" command of the event of a heart.
givenHeartAchievement(name) == DiscoverHeartOf \o removeWhitespace(name, 1)

\* The entries of one region in event_conditions.yml: the region's, its
\* heart's, then one per village, each with the achievement it gives.
eventEntries(region) ==
    <<[kind |-> "region", region |-> region.id,
       key |-> nameForYAML(region.name) \o DiscoverOnce,
       gives |-> givenAchievement(region.name)],
      [kind |-> "heart", region |-> region.id,
       key |-> <<"h", "e", "a", "r", "t", "_", "o", "f", "_">>
                   \o nameForYAML(region.name) \o DiscoverOnce,
       gives |-> givenHeartAchievement(region.name)]>>
    \o [i \in 1..Len(villagesOf(region)) |->
           [kind |-> "village", region |-> region.id,
            village |-> villagesOf(region)[i].id,
            key |-> nameForYAML(villagesOf(region)[i].name) \o DiscoverOnce,
            gives |-> givenAchievement(villagesOf(region)[i].name)]]

\* generateAchievementsYAML: the file achievements.yml and the count.
generateAchievementsYAML(rs, wt) ==
    IF Len(rs) = 0
    THEN Effects(<<Toast(<<"No regions to generate achievements for">>, "error")>>,
                 <<>>)
    ELSE LET entries == Flatten([i \in 1..Len(rs) |-> achievementEntries(rs[i])], 1)
         IN Effects(<<Toast(<<"Generated", Len(entries), "achievements">>,
                            "success")>>,
                    <<Download(<<"achievements.yml">>, entries)>>)

\* generateEventConditionsYAML: the file event_conditions.yml and the count.
generateEventConditionsYAML(rs, wt) ==
    IF Len(rs) = 0
    THEN Effects(<<Toast(<<"No regions to generate event conditions for">>,
                         "error")>>, <<>>)
    ELSE LET entries == Flatten([i \in 1..Len(rs) |-> eventEntries(rs[i])], 1)
         IN Effects(<<Toast(<<"Generated", Len(entries), "event conditions">>,
                            "success")>>,
                    <<Download(<<"event_conditions.yml">>, entries)>>)

\* toLowerCase on the names of the challenge levels.
toLowerCase(level) ==
    CASE level = "Vanilla" -> "vanilla"
      [] level = "Bronze" -> "bronze"
      [] level = "Silver" -> "silver"
      [] level = "Gold" -> "gold"
      [] level = "Platinum" -> "platinum"

\* The preset of a region rule: challenge-<level in lower case>.
presetName(level) == <<"challenge-", toLowerCase(level)>>

\* generateLevelledMobsRulesYAML with the rule of the villages written ahead
\* of the rule of the hearts.
generateLevelledMobsRulesYAMLVillagesFirst(rs, worldName, spawnCoordinates, wt, now) ==
    IF Len(rs) = 0 /\ ~HasCoordinates(spawnCoordinates)
    THEN Effects(<<Toast(<<"No regions or spawn to generate LevelledMobs rules for">>,
                         "error")>>, <<>>)
    ELSE LET heartRegions == [i \in 1..Len(rs) |-> [region |-> rs[i].id]]
             villageRegions ==
                 Flatten([i \in 1..Len(rs) |->
                             [j \in 1..Len(villagesOf(rs[i])) |->
                                 [region |-> rs[i].id,
                                  village |-> villagesOf(rs[i])[j].id]]], 1)
             rules ==
                 (IF HasCoordinates(spawnCoordinates)
                  THEN <<[kind |-> "spawn", preset |-> <<"challenge-", "vanilla">>]>> ELSE <<>>)
                 \o (IF Len(villageRegions) > 0
                     THEN <<[kind |-> "villages", preset |-> <<"challenge-", "vanilla">>,
                             members |-> villageRegions]>>
                     ELSE <<>>)
                 \o (IF Len(heartRegions) > 0
                     THEN <<[kind |-> "hearts", preset |-> <<"challenge-", "vanilla">>,
                             members |-> heartRegions]>>
                     ELSE <<>>)
                 \o Flatten([i \in 1..Len(rs) |->
                                IF rs[i].challengeLevel # Null
                                THEN <<[kind |-> "region",
                                        preset |-> presetName(rs[i].challengeLevel),
                                        region |-> rs[i].id]>>
                                ELSE <<>>], 1)
         IN Effects(<<Toast(<<"Generated", Len(rules), "LevelledMobs rules">>,
                            "success")>>,
                    <<[filename |-> <<worldName, "-rules.yml">>,
                       worldName |-> worldName, generatedOn |-> now,
                       content |-> rules]>>)

\* generateLevelledMobsRulesYAML: the rules file of the world: the spawn rule,
\* the rule of all hearts, the rule of all villages, then one rule per region
\* that has a challenge level.
generateLevelledMobsRulesYAML(rs, worldName, spawnCoordinates, wt, now) ==
    IF Len(rs) = 0 /\ ~HasCoordinates(spawnCoordinates)
    THEN Effects(<<Toast(<<"No regions or spawn to generate LevelledMobs rules for">>,
                         "error")>>, <<>>)
    ELSE LET heartRegions == [i \in 1..Len(rs) |-> [region |-> rs[i].id]]
             villageRegions ==
                 Flatten([i \in 1..Len(rs) |->
                             [j \in 1..Len(villagesOf(rs[i])) |->
                                 [region |-> rs[i].id,
                                  village |-> villagesOf(rs[i])[j].id]]], 1)
             rules ==
                 (IF HasCoordinates(spawnCoordinates)
                  THEN <<[kind |-> "spawn", preset |-> <<"challenge-", "vanilla">>]>> ELSE <<>>)
                 \o (IF Len(heartRegions) > 0
                     THEN <<[kind |-> "hearts", preset |-> <<"challenge-", "vanilla">>,
                             members |-> heartRegions]>>
                     ELSE <<>>)
                 \o (IF Len(villageRegions) > 0
                     THEN <<[kind |-> "villages", preset |-> <<"challenge-", "vanilla">>,
                             members |-> villageRegions]>>
                     ELSE <<>>)
                 \o Flatten([i \in 1..Len(rs) |->
                                IF rs[i].challengeLevel # Null
                                THEN <<[kind |-> "region",
                                        preset |-> presetName(rs[i].challengeLevel),
                                        region |-> rs[i].id]>>
                                ELSE <<>>], 1)
         IN Effects(<<Toast(<<"Generated", Len(rules), "LevelledMobs rules">>,
                            "success")>>,
                    <<[filename |-> <<worldName, "-rules.yml">>,
                       worldName |-> worldName, generatedOn |-> now,
                       content |-> rules]>>)

\* The regions the Advanced panel counts as available.
availableRegions(rs) == FilterIdx(rs, {i \in 1..Len(rs) : Len(rs[i].points) >= 3}, 1)

WorldName == "world"

Clock == 0..MaxClock

SpawnPoint == Pt(2, 2)

\* ------------------------------------------------------- export harness

\* The arguments exportRegionsYAML takes for spawnCoordinates: null, or the
\* spawn point without a radius or with one of 0..MaxRadius.
SpawnArguments ==
    {NoCoordinates, [x |-> SpawnPoint.x, z |-> SpawnPoint.z]}
        \cup {[x |-> SpawnPoint.x, z |-> SpawnPoint.z, radius |-> r] :
                 r \in 0..MaxRadius}

\* The spawn state of the map: no spawn point, or one with its radius.
SpawnStates ==
    {[coordinates |-> NoCoordinates, radius |-> MaxRadius],
     [coordinates |-> SpawnPoint, radius |-> MaxRadius]}

\* The export options the panel can show, greetings and farewells off.
OptionSets ==
    [includeVillages : BOOLEAN, includeHeartRegions : BOOLEAN,
     includeSpawnRegion : BOOLEAN, useGreetingsAndFarewells : {FALSE},
     greetingSize : {"large"}, includeChallengeLevelSubheading : {FALSE}]

\* Collections of up to MaxRegions regions: each a polygon being drawn or a
\* finished one, at any challenge level, with or without a village.
ExportRegionLists ==
    UNION {{[i \in 1..n |->
                Region(IdNames[i], f[i].points, f[i].level, FALSE,
                       IF f[i].village
                       THEN <<Village(VillageNames[i], IdNames[i])>>
                       ELSE <<>>)] :
                f \in [1..n -> [points : {Segment, Triangle},
                                level : ChallengeLevels,
                                village : BOOLEAN]]} : n \in 0..MaxRegions}

InitExport ==
    /\ points = <<>>
    /\ call = NoCall
    /\ ret = NoRet
    /\ regions \in ExportRegionLists
    /\ selectedRegionId = Null
    /\ worldType \in WorldTypes
    /\ spawnState \in SpawnStates
    /\ options \in OptionSets
    /\ reads = <<>>
    /\ isImporting = FALSE
    /\ importError = Null
    /\ PanelIdle

\* handleExportYAML, behind the Generate regions.yml button.
HandleExportYAML ==
    /\ Len(regions) # 0
    /\ LET spawnData ==
               IF HasCoordinates(spawnState.coordinates)
               THEN [x |-> spawnState.coordinates.x,
                     z |-> spawnState.coordinates.z,
                     radius |-> spawnState.radius]
               ELSE NoCoordinates
           finalIncludeSpawnRegion ==
               IF worldType = "nether" THEN FALSE ELSE options.includeSpawnRegion
       IN /\ ret' = exportRegionsYAML(regions, options.includeVillages,
                        options.includeHeartRegions, finalIncludeSpawnRegion,
                        spawnData, worldType, options.useGreetingsAndFarewells,
                        options.greetingSize,
                        options.includeChallengeLevelSubheading)
          /\ call' = [fn |-> "handleExportYAML",
                      includeSpawnRegion |-> options.includeSpawnRegion,
                      spawnCoordinates |-> spawnData]
    /\ UNCHANGED <<geomVars, appVars>>

\* exportRegionsYAML called on the collection with any spawn arguments.
CallExportRegionsYAML(includeSpawnRegion, spawnCoordinates) ==
    /\ ret' = exportRegionsYAML(regions, options.includeVillages,
                  options.includeHeartRegions, includeSpawnRegion,
                  spawnCoordinates, worldType, options.useGreetingsAndFarewells,
                  options.greetingSize, options.includeChallengeLevelSubheading)
    /\ call' = [fn |-> "exportRegionsYAML",
                includeSpawnRegion |-> includeSpawnRegion,
                spawnCoordinates |-> spawnCoordinates]
    /\ UNCHANGED <<geomVars, appVars>>

\* handleGenerateAchievements, behind the Generate Achievements button.
HandleGenerateAchievements ==
    /\ Len(availableRegions(regions)) # 0
    /\ ret' = generateAchievementsYAML(regions, worldType)
    /\ call' = [fn |-> "handleGenerateAchievements"]
    /\ UNCHANGED <<geomVars, appVars>>

\* handleGenerateEventConditions, behind the Generate Event Conditions button.
HandleGenerateEventConditions ==
    /\ Len(availableRegions(regions)) # 0
    /\ ret' = generateEventConditionsYAML(regions, worldType)
    /\ call' = [fn |-> "handleGenerateEventConditions"]
    /\ UNCHANGED <<geomVars, appVars>>

\* handleGenerateLevelledMobsRules, behind the Generate LevelledMobs Rules
\* button, at the time now.
HandleGenerateLevelledMobsRules(now) ==
    /\ Len(availableRegions(regions)) # 0
    /\ ret' = generateLevelledMobsRulesYAML(regions, WorldName,
                  spawnState.coordinates, worldType, now)
    /\ call' = [fn |-> "handleGenerateLevelledMobsRules"]
    /\ UNCHANGED <<geomVars, appVars>>

NextExport ==
    \/ HandleExportYAML
    \/ \E includeSpawnRegion \in BOOLEAN, spawnCoordinates \in SpawnArguments :
           CallExportRegionsYAML(includeSpawnRegion, spawnCoordinates)
    \/ HandleGenerateAchievements
    \/ HandleGenerateEventConditions
    \/ \E now \in Clock : HandleGenerateLevelledMobsRules(now)

SpecExport == InitExport /\ [][NextExport]_vars

\* The ids of the regions an entry of an exported file is about.
EntryRegions(e) ==
    (IF "region" \in DOMAIN e THEN {e.region} ELSE {})
        \cup (IF "members" \in DOMAIN e
              THEN {e.members[i].region : i \in 1..Len(e.members)}
              ELSE {})

\* The positions of the spawn blocks in a file's content.
SpawnPositions(content) == {k \in 1..Len(content) : content[k].kind = "spawn"}

ExportHandlers ==
    {"handleExportYAML", "handleGenerateAchievements",
     "handleGenerateEventConditions", "handleGenerateLevelledMobsRules"}

\* C8: whatever collection the panels pass, every block, entry or rule of
\* every exported file is about regions that have at least 3 points.
C8_NoEntryForRegionUnderThreePoints ==
    call.fn \in ExportHandlers =>
        \A d \in 1..Len(ret.downloads) :
            \A k \in 1..Len(ret.downloads[d].content) :
                EntryRegions(ret.downloads[d].content[k]) \subseteq
                    {regions[i].id :
                        i \in {j \in 1..Len(regions) : Len(regions[j].points) >= 3}}

\* C9: exportRegionsYAML on an empty region list with no spawn to emit (no
\* coordinates, no radius, option off, or nether) shows an error notification
\* and offers no file; a file it offers holds at least one block.
C9_NothingToExportIsAnError ==
    call.fn = "exportRegionsYAML" =>
        /\ ( /\ Len(regions) = 0
             /\ \/ ~HasCoordinates(call.spawnCoordinates)
                \/ ~HasRadius(call.spawnCoordinates)
                \/ ~call.includeSpawnRegion
                \/ worldType = "nether" )
           => /\ \E t \in 1..Len(ret.toasts) : ret.toasts[t].type = "error"
              /\ ret.downloads = <<>>
        /\ \A d \in 1..Len(ret.downloads) : Len(ret.downloads[d].content) >= 1

Landmark(id, parentRegionId) ==
    [id |-> id, type |-> "landmark", parentRegionId |-> parentRegionId,
     name |-> <<id>>]

LandmarkNames == <<"l1", "l2", "l3", "l4">>

\* The subregion lists of the i-th region of a collection: none, a village,
\* or a landmark followed by a village.
SubregionLists(i) ==
    {<<>>,
     <<Village(VillageNames[i], IdNames[i])>>,
     <<Landmark(LandmarkNames[i], IdNames[i]),
       Village(VillageNames[i], IdNames[i])>>}

\* Collections of up to MaxRegions regions, as a project file may hold them.
PluginRegionLists ==
    UNION {{[i \in 1..n |->
                Region(IdNames[i], f[i].points, f[i].level, FALSE, g[i])] :
                f \in [1..n -> [points : {Segment, Triangle},
                                level : ChallengeLevels]],
                g \in {h \in [1..n -> UNION {SubregionLists(k) : k \in 1..n}] :
                           \A k \in 1..n : h[k] \in SubregionLists(k)}} :
           n \in 0..MaxRegions}

InitPlugin ==
    /\ points = <<>>
    /\ call = NoCall
    /\ ret = NoRet
    /\ regions \in PluginRegionLists
    /\ selectedRegionId = Null
    /\ worldType \in WorldTypes
    /\ spawnState \in SpawnStates
    /\ options = DefaultOptions
    /\ reads = <<>>
    /\ isImporting = FALSE
    /\ importError = Null
    /\ PanelIdle

\* generateAchievementsYAML called on the collection.
CallGenerateAchievementsYAML ==
    /\ ret' = generateAchievementsYAML(regions, worldType)
    /\ call' = [fn |-> "generateAchievementsYAML"]
    /\ UNCHANGED <<geomVars, appVars>>

\* generateEventConditionsYAML called on the collection.
CallGenerateEventConditionsYAML ==
    /\ ret' = generateEventConditionsYAML(regions, worldType)
    /\ call' = [fn |-> "generateEventConditionsYAML"]
    /\ UNCHANGED <<geomVars, appVars>>

\* generateLevelledMobsRulesYAML called on the collection at the time now.
CallGenerateLevelledMobsRulesYAML(now) ==
    /\ ret' = generateLevelledMobsRulesYAML(regions, WorldName,
                  spawnState.coordinates, worldType, now)
    /\ call' = [fn |-> "generateLevelledMobsRulesYAML"]
    /\ UNCHANGED <<geomVars, appVars>>

NextPlugin ==
    \/ CallGenerateAchievementsYAML
    \/ CallGenerateEventConditionsYAML
    \/ \E now \in Clock : CallGenerateLevelledMobsRulesYAML(now)
    \/ HandleGenerateAchievements
    \/ HandleGenerateEventConditions
    \/ \E now \in Clock : HandleGenerateLevelledMobsRules(now)

SpecPlugin == InitPlugin /\ [][NextPlugin]_vars

\* The number of entries of a file's content that are of a kind.
CountKind(content, kind) ==
    Cardinality({k \in 1..Len(content) : content[k].kind = kind})

\* The number of subregions of type village over all regions.
VillageCount(rs) ==
    Cardinality(UNION {{<<i, j>> :
                           j \in {k \in 1..Len(rs[i].subregions) :
                                      rs[i].subregions[k].type = "village"}} :
                       i \in 1..Len(rs)})

\* C11: for a non-empty region list generateAchievementsYAML writes one
\* region entry and one heart entry per region and one entry per village
\* subregion, 2 * |regions| + V entries in all, and its success notification
\* reports that number.
C11_AchievementCount ==
    (call.fn \in {"generateAchievementsYAML", "handleGenerateAchievements"}
        /\ Len(regions) > 0) =>
        /\ Len(ret.downloads) = 1
        /\ LET content == ret.downloads[1].content
               V == VillageCount(regions)
           IN /\ Len(content) = 2 * Len(regions) + V
              /\ CountKind(content, "region") = Len(regions)
              /\ CountKind(content, "heart") = Len(regions)
              /\ CountKind(content, "village") = V
              /\ ret.toasts =
                     <<Toast(<<"Generated", 2 * Len(regions) + V, "achievements">>,
                             "success")>>

\* Two regions, one village and one landmark among their subregions: five
\* achievements.
C11_Witness ==
    /\ call.fn = "generateAchievementsYAML"
    /\ Len(regions) = 2
    /\ VillageCount(regions) = 1
    /\ \E i \in 1..2 : Len(regions[i].subregions) = 2
    /\ Len(ret.downloads) = 1
    /\ Len(ret.downloads[1].content) = 5

\* The place of a kind of rule in the rules file.
RuleRank(kind) ==
    CASE kind = "spawn" -> 1
      [] kind = "hearts" -> 2
      [] kind = "villages" -> 3
      [] kind = "region" -> 4

\* The position in a collection of the region with an id.
RegionIndex(rs, id) == CHOOSE i \in 1..Len(rs) : rs[i].id = id

MobsRulesCalls ==
    {"generateLevelledMobsRulesYAML", "handleGenerateLevelledMobsRules"}

\* C12: the rules file lists the spawn rule (there iff spawn coordinates are
\* set), then the one rule of the hearts (there iff there is a region, naming
\* one heart per region in region order), then the one rule of the villages
\* (there iff there is a village subregion), then the rules of the regions in
\* region order.
C12_RuleOrder ==
    (call.fn \in MobsRulesCalls /\ Len(ret.downloads) = 1) =>
        LET rules == ret.downloads[1].content
        IN /\ \A j, k \in 1..Len(rules) :
                  j < k => RuleRank(rules[j].kind) <= RuleRank(rules[k].kind)
           /\ CountKind(rules, "spawn") =
                  (IF HasCoordinates(spawnState.coordinates) THEN 1 ELSE 0)
           /\ CountKind(rules, "hearts") = (IF Len(regions) > 0 THEN 1 ELSE 0)
           /\ \A k \in 1..Len(rules) :
                  rules[k].kind = "hearts" =>
                      rules[k].members =
                          [i \in 1..Len(regions) |-> [region |-> regions[i].id]]
           /\ CountKind(rules, "villages") =
                  (IF VillageCount(regions) > 0 THEN 1 ELSE 0)
           /\ \A j, k \in 1..Len(rules) :
                  (j < k /\ rules[j].kind = "region" /\ rules[k].kind = "region")
                      => RegionIndex(regions, rules[j].region)
                             < RegionIndex(regions, rules[k].region)

\* A rules file with all four kinds of rule, two of them for regions.
C12_Witness ==
    /\ call.fn = "handleGenerateLevelledMobsRules"
    /\ Len(ret.downloads) = 1
    /\ LET rules == ret.downloads[1].content
       IN /\ Len(rules) = 5
          /\ rules[1].kind = "spawn"
          /\ rules[2].kind = "hearts"
          /\ rules[3].kind = "villages"
          /\ rules[4].kind = "region"
          /\ rules[5].kind = "region"

\* The rules of a rules file that are the rule of one region.
RegionRules(rules, id) ==
    {k \in 1..Len(rules) : rules[k].kind = "region" /\ rules[k].region = id}

\* C13: the rules file holds a region rule exactly for the regions whose
\* challenge level is not Vanilla: none for a Vanilla region, and for a
\* Bronze, Silver, Gold or Platinum region exactly one, with the preset
\* challenge-<level in lower case> and naming that region.
C13_RuleExactlyForNonVanilla ==
    (call.fn \in MobsRulesCalls /\ Len(ret.downloads) = 1) =>
        LET rules == ret.downloads[1].content
        IN \A i \in 1..Len(regions) :
               IF regions[i].challengeLevel = "Vanilla"
               THEN RegionRules(rules, regions[i].id) = {}
               ELSE /\ Cardinality(RegionRules(rules, regions[i].id)) = 1
                    /\ \A k \in RegionRules(rules, regions[i].id) :
                           rules[k].preset =
                               <<"challenge-", toLowerCase(regions[i].challengeLevel)>>

\* C14: an exporter is deterministic: invoked again, at whatever time, with
\* the inputs of its last invocation (the same call on the same collection,
\* world type, spawn state and options), it writes the same text and shows
\* the same notification.
C14_SameInputsSameOutput ==
    [][(call' = call /\ UNCHANGED <<geomVars, appVars>>) => ret' = ret]_vars

\* -------------------------------------------------------- import harness

\* Every shape of JSON document: each required field absent, of the kind the
\* format asks for, or of another kind; with or without exportDate and
\* worldName.
JsonDocs ==
    {[readable |-> TRUE, json |-> TRUE, version |-> d.version,
      hasRegions |-> d.regions # "absent",
      regionsIsArray |-> d.regions = "array",
      regions |-> IF d.regions = "array" THEN d.rs ELSE <<>>,
      mapState |-> d.mapState # "absent",
      mapStateIsObject |-> d.mapState = "object",
      exportDate |-> d.exportDate, worldName |-> d.worldName] :
        d \in [version : BOOLEAN, regions : {"absent", "array", "string"},
               rs : {<<>>, <<Region(IdNames[1], Triangle, "Vanilla", FALSE, <<>>)>>},
               mapState : {"absent", "object", "number"},
               exportDate : BOOLEAN, worldName : {Null, "custom"}]}

AllDocs ==
    JsonDocs \cup {Doc(FALSE, FALSE, FALSE, FALSE, <<>>, FALSE),
                   Doc(TRUE, FALSE, FALSE, FALSE, <<>>, FALSE)}

InitImport ==
    /\ points = <<>>
    /\ call = NoCall
    /\ ret = NoRet
    /\ regions = <<>>
    /\ selectedRegionId = Null
    /\ worldType = "overworld"
    /\ spawnState = [coordinates |-> NoCoordinates, radius |-> 0]
    /\ options = DefaultOptions
    /\ reads \in {<<doc>> : doc \in AllDocs}
    /\ isImporting = FALSE
    /\ importError = Null
    /\ PanelIdle

\* importMapData on the file: how its promise settles.
CallImportMapData ==
    /\ call = NoCall
    /\ ret' = importMapData(reads[1])
    /\ call' = [fn |-> "importMapData"]
    /\ UNCHANGED <<geomVars, appVars>>

NextImport == CallImportMapData

SpecImport == InitImport /\ [][NextImport]_vars

\* C15: importMapData resolves exactly the documents that have a version,
\* regions that are a sequence, a mapState that is an object, and an
\* exportDate, and rejects every other; a resolved document without worldName
\* gets the worldName "world".
C15_ImportValidates ==
    call.fn = "importMapData" =>
        LET doc == reads[1]
        IN /\ ret.ok <=> ( /\ doc.readable /\ doc.json /\ doc.version
                           /\ doc.regionsIsArray /\ doc.mapStateIsObject
                           /\ doc.exportDate )
           /\ ret.ok => ret.worldName =
                  (IF doc.worldName = Null THEN "world" ELSE doc.worldName)

\* C16: a project import that fails leaves the region collection and the
\* selected region as they were and records an import error; only an import
\* that succeeded replaces the regions and clears the selection.
C16_FailedImportKeepsState ==
    [][ /\ (call'.fn = "importSettled" /\ ~call'.ok) =>
              /\ regions' = regions
              /\ selectedRegionId' = selectedRegionId
              /\ importError' # Null
        /\ (call'.fn = "importSettled" /\ call'.ok) => selectedRegionId' = Null
        /\ call'.fn = "handleImport" =>
              (regions' = regions /\ selectedRegionId' = selectedRegionId)
      ]_vars

\* A failed import with regions on the map and one of them selected.
C16_Witness ==
    /\ call.fn = "importSettled"
    /\ ~call.ok
    /\ Len(regions) > 0
    /\ selectedRegionId # Null
    /\ importError # Null

BlankLine == <<"">>

SepLine == <<"Sep=", "">>

CommentLine == <<"#region", "-100", "-100", "100", "100">>

HeaderLine == <<"seed", "structure", "x", "z", "details">>

CsvLines ==
    {BlankLine, SepLine, CommentLine, HeaderLine,
     <<"123", "Village", "50", "50", "foo">>,
     <<"123", "Village", "-7", "12ab", "bar", "extra">>,
     <<"123", "Village", "50", "50">>,
     <<"", "", "", "", "">>}

CsvContents == SeqsUpTo(CsvLines, MaxLines)

\* A number, or what parseInt gives for a text with no leading integer.
Num(n) == [int |-> n]

NaN == [nan |-> TRUE]

\* The leading integers of the fields that have one.
LeadingInteger == [f \in {"123", "50", "-7", "12ab", "-100"} |->
                      CASE f = "123" -> 123
                        [] f = "50" -> 50
                        [] f = "-7" -> 0 - 7
                        [] f = "12ab" -> 12
                        [] f = "-100" -> 0 - 100]

\* parseInt(text): the leading integer of the text, NaN when it has none.
parseInt(field) ==
    IF field \in DOMAIN LeadingInteger THEN Num(LeadingInteger[field]) ELSE NaN

\* !line || line.startsWith('Sep=') || line.startsWith('#')
isSkippedLine(line) ==
    \/ line = BlankLine
    \/ line[1] \in {"Sep="}
    \/ line[1] \in {"#region"}

\* line.startsWith('seed;structure;x;z;details')
isHeaderLine(line) ==
    /\ Len(line) >= 5
    /\ SubSeq(line, 1, 5) = HeaderLine

\* The first loop of parseVillageCSV from line i on: the index after the
\* first header line, 0 when no header line is found.
RECURSIVE findDataStart(_, _)
findDataStart(lines, i) ==
    IF i >= Len(lines) THEN 0
    ELSE IF isSkippedLine(At(lines, i)) THEN findDataStart(lines, i + 1)
    ELSE IF isHeaderLine(At(lines, i)) THEN i + 1
    ELSE findDataStart(lines, i + 1)

\* The second loop of parseVillageCSV with every line of 5 fields or more
\* taken as a row, Sep= and comment lines too.
RECURSIVE parseRowsNoSkip(_, _)
parseRowsNoSkip(lines, i) ==
    IF i >= Len(lines) THEN <<>>
    ELSE LET parts == At(lines, i)
         IN (IF Len(parts) >= 5
             THEN <<[x |-> parseInt(parts[3]), z |-> parseInt(parts[4]),
                     details |-> parts[5], type |-> parts[2]]>>
             ELSE <<>>) \o parseRowsNoSkip(lines, i + 1)

\* The second loop of parseVillageCSV from line i on.
RECURSIVE parseRows(_, _)
parseRows(lines, i) ==
    IF i >= Len(lines) THEN <<>>
    ELSE LET parts == At(lines, i)
         IN (IF ~isSkippedLine(parts) /\ Len(parts) >= 5
             THEN <<[x |-> parseInt(parts[3]), z |-> parseInt(parts[4]),
                     details |-> parts[5], type |-> parts[2]]>>
             ELSE <<>>) \o parseRows(lines, i + 1)

parseVillageCSV(csvContent) == parseRows(csvContent, findDataStart(csvContent, 0))

\* The panels at rest, before any function is called.
InitVillage ==
    /\ points = <<>>
    /\ call = NoCall
    /\ ret = NoRet
    /\ AppIdle

\* parseVillageCSV on the text of a CSV file.
CallParseVillageCSV(csvContent) ==
    /\ call = NoCall
    /\ ret' = parseVillageCSV(csvContent)
    /\ call' = [fn |-> "parseVillageCSV", csvContent |-> csvContent]
    /\ UNCHANGED <<geomVars, appVars>>

\* The 0-based indices of the header lines of a file.
HeaderIndices(lines) ==
    {i \in 0..(Len(lines) - 1) :
        /\ Len(At(lines, i)) >= 5
        /\ SubSeq(At(lines, i), 1, 5) = <<"seed", "structure", "x", "z", "details">>}

\* The 0-based indices of the rows of a file from index start on: the lines
\* that are not blank, start with neither Sep= nor #, and have 5 fields or
\* more.
RowIndices(lines, start) ==
    {i \in start..(Len(lines) - 1) :
        LET line == At(lines, i)
        IN /\ line # <<"">>
           /\ line[1] \notin {"Sep=", "#region"}
           /\ Len(line) >= 5}

\* The values of the fields that are integers in decimal notation.
IntegerValue == [f \in {"50"} |-> 50] @@ [f \in {"-7"} |-> 0 - 7]

\* The number of elements of a set of indices that are below i.
Below(S, i) == Cardinality({j \in S : j < i})

\* The records are those of the rows, one each, in the order of the rows.
RecordsOfRows(records, lines, rows) ==
    /\ Len(records) = Cardinality(rows)
    /\ \A i \in rows :
           LET line == At(lines, i)
               record == records[Below(rows, i) + 1]
           IN /\ record.type = line[2]
              /\ record.details = line[5]
              /\ line[3] \in DOMAIN IntegerValue => record.x = Num(IntegerValue[line[3]])
              /\ line[4] \in DOMAIN IntegerValue => record.z = Num(IntegerValue[line[4]])

\* C18 as stated: parseVillageCSV returns, in input order, one record per
\* row after the header row that has 5 fields or more, with x, z, type and
\* details from fields 3, 4, 2 and 5; blank lines, Sep= and # lines, the
\* header row, the lines before it and shorter rows give no record.
C18_RecordsAfterHeader ==
    call.fn = "parseVillageCSV" =>
        LET lines == call.csvContent
            headers == HeaderIndices(lines)
            start == IF headers = {} THEN Len(lines)
                     ELSE 1 + CHOOSE h \in headers : \A g \in headers : h <= g
        IN RecordsOfRows(ret, lines, RowIndices(lines, start))

\* C18, amended: the same for a file that has a header row; a file that has
\* none is read from its first line on, every line of it that is a row
\* giving a record.
C18_RecordsAfterHeaderIfAny ==
    call.fn = "parseVillageCSV" =>
        LET lines == call.csvContent
            headers == HeaderIndices(lines)
            start == IF headers = {} THEN 0
                     ELSE 1 + CHOOSE h \in headers : \A g \in headers : h <= g
        IN RecordsOfRows(ret, lines, RowIndices(lines, start))

\* A Sep= line, the header and one village row: one record, x = z = 50.
C18_Witness ==
    /\ call.fn = "parseVillageCSV"
    /\ call.csvContent = <<SepLine, HeaderLine, <<"123", "Village", "50", "50", "foo">>>>
    /\ ret = <<[x |-> Num(50), z |-> Num(50), details |-> "foo", type |-> "Village"]>>

\* ------------------------------------------------------- village naming

\* A village name: a generated name, or one with a number appended
\* (`${baseName} ${counter}`); suffix 0 stands for no number.
Name(base, suffix) == [base |-> base, suffix |-> suffix]

GeneratedNames == {"A", "B"}

\* Behaviours of the name generator, as the names its calls return in
\* order: "A" for the first k calls and "B" from then on.
Generators ==
    {[n \in 0..maxAttempts |-> IF n < k THEN "A" ELSE "B"] :
        k \in 0..(maxAttempts + 1)}

\* The names taken already: for some of the generated names, the name itself
\* and its numbered forms up to a number.
ExistingNameSets ==
    {{Name(b, n) : b \in B, n \in 0..k} :
        B \in SUBSET GeneratedNames, k \in {0, 1, maxCounter - 2, maxCounter - 1}}

\* The first loop of createVillageSubregion: a new name is generated while
\* the name is taken and fewer than maxAttempts new names were generated.
RECURSIVE regenerate(_, _, _, _)
regenerate(generatedName, attempts, existingNames, generator) ==
    IF generatedName \in existingNames /\ attempts < maxAttempts
    THEN regenerate(Name(generator[attempts + 1], 0), attempts + 1,
                    existingNames, generator)
    ELSE generatedName

\* The second loop of createVillageSubregion, entered with a base name that
\* is taken: it tries the base name with the counters 1, 2, ... below
\* maxCounter in turn and stops at the first that is not taken, or with the
\* last counter when all are taken.
appendCounter(baseName, existingNames) ==
    LET free == {counter \in 1..(maxCounter - 1) :
                    Name(baseName.base, counter) \notin existingNames}
    IN IF free = {}
       THEN Name(baseName.base, maxCounter - 1)
       ELSE Name(baseName.base, CHOOSE c \in free : \A d \in free : c <= d)

\* createVillageSubregion, with the name generator given by the names its
\* calls return.
createVillageSubregion(village, index, parentRegionId, existingNames, generator) ==
    LET regenerated == regenerate(Name(generator[0], 0), 0, existingNames, generator)
        generatedName ==
            IF regenerated \in existingNames
            THEN appendCounter(regenerated, existingNames)
            ELSE regenerated
    IN [id |-> <<"village_", index>>, name |-> generatedName,
        x |-> village.x, z |-> village.z, radius |-> 64, type |-> "village",
        details |-> village.details, parentRegionId |-> parentRegionId]

\* createVillageSubregion for the first village of a parsed file.
CallCreateVillageSubregion(existingNames, generator) ==
    /\ call = NoCall
    /\ ret' = createVillageSubregion(
                  [x |-> Num(50), z |-> Num(50), details |-> "foo", type |-> "Village"],
                  0, IdNames[1], existingNames, generator)
    /\ call' = [fn |-> "createVillageSubregion", existingNames |-> existingNames,
                generator |-> generator]
    /\ UNCHANGED <<geomVars, appVars>>

NextVillage ==
    \/ \E csvContent \in CsvContents : CallParseVillageCSV(csvContent)
    \/ \E existingNames \in ExistingNameSets, generator \in Generators :
           CallCreateVillageSubregion(existingNames, generator)

SpecVillage == InitVillage /\ [][NextVillage]_vars

\* C19: whatever names exist and whatever the name generator returns,
\* createVillageSubregion returns a subregion whose name is none of the
\* existing names, with radius 64 and type village.
C19_NameNotTaken ==
    call.fn = "createVillageSubregion" =>
        /\ ret.name \notin call.existingNames
        /\ ret.radius = 64
        /\ ret.type = "village"

\* ---------------------------------------------------------- heart harness

\* Block coordinates of the points of exported regions, negative ones too.
HeartCoords == (0 - 1)..GridMax

\* Custom center points, in half blocks, and some with other fractions.
CenterPoints ==
    {Center(x, z, 2) : x, z \in {0 - 5, 0 - 1, 0, 1, 4}}
        \cup {Center(x, 1, 4) : x \in {0 - 3, 1, 2, 3}}

\* One region: any polygon of up to 3 points without a custom center, or a
\* triangle with one.
HeartRegions ==
    {Region(IdNames[1], pts, "Vanilla", FALSE, <<>>) :
        pts \in SeqsUpTo({Pt(x, z) : x, z \in HeartCoords}, 3)}
    \cup {[Region(IdNames[1], Triangle, "Vanilla", FALSE, <<>>)
              EXCEPT !.centerPoint = c] : c \in CenterPoints}

InitHeart ==
    /\ points = <<>>
    /\ call = NoCall
    /\ ret = NoRet
    /\ regions \in {<<region>> : region \in HeartRegions}
    /\ selectedRegionId = Null
    /\ worldType = "overworld"
    /\ spawnState = [coordinates |-> NoCoordinates, radius |-> 0]
    /\ options \in {o \in OptionSets : ~o.includeVillages /\ ~o.includeSpawnRegion}
    /\ reads = <<>>
    /\ isImporting = FALSE
    /\ importError = Null
    /\ PanelIdle

\* generateRegionYAML on the region, with the options of the panel.
CallGenerateRegionYAML ==
    /\ call = NoCall
    /\ ret' = generateRegionYAML(regions[1], options.includeVillages,
                                 options.includeHeartRegions, worldType,
                                 options.useGreetingsAndFarewells,
                                 options.greetingSize,
                                 options.includeChallengeLevelSubheading)
    /\ call' = [fn |-> "generateRegionYAML"]
    /\ UNCHANGED <<geomVars, appVars>>

NextHeart == CallGenerateRegionYAML

SpecHeart == InitHeart /\ [][NextHeart]_vars

\* The heart blocks of a sequence of blocks.
HeartBlocks(blocks) == {k \in 1..Len(blocks) : blocks[k].kind = "heart"}

\* The center the heart of a region is to have: the custom center point when
\* set, else the mean of the points.
ExpectedCenter(region) ==
    IF "x" \in DOMAIN region.centerPoint
    THEN region.centerPoint
    ELSE Center(sumPoints(region.points, 1).x, sumPoints(region.points, 1).z,
                Len(region.points))

\* C20: a region exported with heart regions included has one heart cuboid,
\* of priority 10, whose max exceeds its min by 6 on either axis (7 blocks),
\* and which is centered at the region's center: the middle of the cuboid is
\* within half a block of the custom center point when set, and of the mean
\* of the points otherwise.
C20_HeartCuboid ==
    (call.fn = "generateRegionYAML" /\ options.includeHeartRegions) =>
        /\ Cardinality(HeartBlocks(ret)) = 1
        /\ \A k \in HeartBlocks(ret) :
               /\ ret[k].priority = 10
               /\ ret[k].max.x - ret[k].min.x = 6
               /\ ret[k].max.z - ret[k].min.z = 6
               /\ ( "x" \in DOMAIN regions[1].centerPoint
                    \/ Len(regions[1].points) > 0 ) =>
                      LET c == ExpectedCenter(regions[1])
                          dx == c.den * (ret[k].min.x + ret[k].max.x) - 2 * c.x
                          dz == c.den * (ret[k].min.z + ret[k].max.z) - 2 * c.z
                      IN /\ 0 - c.den <= dx /\ dx <= c.den
                         /\ 0 - c.den <= dz /\ dz <= c.den

\* A heart around a custom center point at a negative half block.
C20_Witness ==
    /\ call.fn = "generateRegionYAML"
    /\ options.includeHeartRegions
    /\ regions[1].centerPoint = Center(0 - 5, 1, 2)
    /\ \E k \in HeartBlocks(ret) :
           /\ ret[k].min = Pt(0 - 5, 0 - 2)
           /\ ret[k].max = Pt(1, 4)

\* ------------------------------------------------------ Region Heart panel

\* Whether regions.find(r => r.id === id) finds a region.
regionFound(rs, id) == \E i \in 1..Len(rs) : rs[i].id = id

\* regions.find(r => r.id === id), when it finds one: the first of that id.
findRegion(rs, id) ==
    rs[CHOOSE i \in 1..Len(rs) :
           /\ rs[i].id = id
           /\ \A j \in 1..(i - 1) : rs[j].id # id]

\* Math.round(num / den) as the panel prints it: 0 / 0 is NaN, and
\* Math.round(NaN) is NaN.
roundedQuotient(num, den) ==
    IF den = 0 THEN NaN ELSE Num(mathRound(num, den))

\* The "Current: X: .., Z: .." text of the panel: the custom center point
\* when set, else the sum of the points divided by their number, computed in
\* the panel itself; 0 when the selected region is not in the list.
heartDisplay(rs, id) ==
    LET region == findRegion(rs, id)
    IN IF ~regionFound(rs, id) THEN [x |-> Num(0), z |-> Num(0)]
       ELSE IF "x" \in DOMAIN region.centerPoint
       THEN [x |-> roundedQuotient(region.centerPoint.x, region.centerPoint.den),
             z |-> roundedQuotient(region.centerPoint.z, region.centerPoint.den)]
       ELSE [x |-> roundedQuotient(sumPoints(region.points, 1).x, Len(region.points)),
             z |-> roundedQuotient(sumPoints(region.points, 1).z, Len(region.points))]

\* The "/tp @s X ~ Z" command of the Copy /tp button, for a region found.
tpCommand(region) ==
    IF "x" \in DOMAIN region.centerPoint
    THEN <<"/tp @s", roundedQuotient(region.centerPoint.x, region.centerPoint.den),
           "~", roundedQuotient(region.centerPoint.z, region.centerPoint.den)>>
    ELSE <<"/tp @s", roundedQuotient(sumPoints(region.points, 1).x, Len(region.points)),
           "~", roundedQuotient(sumPoints(region.points, 1).z, Len(region.points))>>

InitHeartPanel ==
    /\ points = <<>>
    /\ call = NoCall
    /\ ret = NoRet
    /\ regions \in {<<region>> : region \in HeartRegions}
    /\ selectedRegionId \in {IdNames[1], IdNames[2]}
    /\ worldType = "overworld"
    /\ spawnState = [coordinates |-> NoCoordinates, radius |-> 0]
    /\ options = DefaultOptions
    /\ reads = <<>>
    /\ isImporting = FALSE
    /\ importError = Null
    /\ PanelIdle

\* The panel renders the heart of the selected region.
RenderHeartPanel ==
    /\ call = NoCall
    /\ selectedRegionId # Null
    /\ ret' = heartDisplay(regions, selectedRegionId)
    /\ call' = [fn |-> "heartDisplay"]
    /\ UNCHANGED <<geomVars, appVars>>

\* The Copy /tp button: writes the command to the clipboard when the selected
\* region is found.
CopyTp ==
    /\ call = NoCall
    /\ selectedRegionId # Null
    /\ regionFound(regions, selectedRegionId)
    /\ ret' = tpCommand(findRegion(regions, selectedRegionId))
    /\ call' = [fn |-> "copyTp"]
    /\ UNCHANGED <<geomVars, appVars>>

NextHeartPanel ==
    \/ RenderHeartPanel
    \/ CopyTp

SpecHeartPanel == InitHeartPanel /\ [][NextHeartPanel]_vars

\* calculateRegionCenter of the selected region, each coordinate rounded.
RoundedRegionCenter ==
    LET center == calculateRegionCenter(findRegion(regions, selectedRegionId))
    IN [x |-> Num(mathRound(center.x, center.den)),
        z |-> Num(mathRound(center.z, center.den))]

\* C21: for every region selected, the heart location the panel shows and
\* the one in the copied /tp command are calculateRegionCenter(region),
\* rounded, also for a region with a custom center point and for one with no
\* points.
C21_PanelShowsRegionCenter ==
    (call # NoCall /\ regionFound(regions, selectedRegionId)) =>
        /\ call.fn = "heartDisplay" => ret = RoundedRegionCenter
        /\ call.fn = "copyTp" =>
               ret = <<"/tp @s", RoundedRegionCenter.x, "~", RoundedRegionCenter.z>>

\* ------------------------------------------- greetings and farewells

\* Names of regions, spelled out.
OakName == <<"O", "a", "k">>

TestValeName == <<"T", "e", "s", "t", " ", "V", "a", "l", "e">>

SpawnHillsName == <<"S", "p", "a", "w", "n", " ", "H", "i", "l", "l", "s">>

HeartwoodName == <<"H", "e", "a", "r", "t", "w", "o", "o", "d">>

OldVillageName == <<"O", "l", "d", " ", "V", "I", "L", "L", "A", "G", "E">>

GreetingNames ==
    {OakName, TestValeName, SpawnHillsName, HeartwoodName, OldVillageName}

\* The sizes of the greeting the panel offers.
GreetingSizes == {"large", "small", "chat"}

\* The export options with every choice of the greeting settings.
GreetingOptionSets ==
    [includeVillages : {FALSE}, includeHeartRegions : BOOLEAN,
     includeSpawnRegion : {TRUE}, useGreetingsAndFarewells : BOOLEAN,
     greetingSize : GreetingSizes, includeChallengeLevelSubheading : BOOLEAN]

\* One finished region of any of the names, at any challenge level.
GreetingRegions ==
    {[Region(IdNames[1], Triangle, level, FALSE, <<>>) EXCEPT !.name = name] :
        level \in ChallengeLevels, name \in GreetingNames}

InitGreeting ==
    /\ points = <<>>
    /\ call = NoCall
    /\ ret = NoRet
    /\ regions \in {<<region>> : region \in GreetingRegions}
    /\ selectedRegionId = Null
    /\ worldType \in WorldTypes
    /\ spawnState = [coordinates |-> NoCoordinates, radius |-> 0]
    /\ options \in GreetingOptionSets
    /\ reads = <<>>
    /\ isImporting = FALSE
    /\ importError = Null
    /\ PanelIdle

NextGreeting == CallGenerateRegionYAML

SpecGreeting == InitGreeting /\ [][NextGreeting]_vars

\* The line carries the primary text: a text around the name of the region.
IsPrimary(line, region) == line.text # "" /\ line.name = region.name

\* The line carries nothing but a colour code.
IsBlank(line) == line.text = ""

\* The two-line titles of a block for a greeting size: the primary text of
\* the greeting and of the farewell on line 1 when large, on line 2 otherwise.
TwoLineTitles(flags, region, greetingSize) ==
    /\ flags.layout = "lines"
    /\ Len(flags.greetingTitle) = 2
    /\ Len(flags.farewellTitle) = 2
    /\ IF greetingSize = "large"
       THEN /\ IsPrimary(flags.greetingTitle[1], region)
            /\ IsPrimary(flags.farewellTitle[1], region)
            /\ IsBlank(flags.farewellTitle[2])
       ELSE /\ IsBlank(flags.greetingTitle[1])
            /\ IsPrimary(flags.greetingTitle[2], region)
            /\ IsBlank(flags.farewellTitle[1])
            /\ IsPrimary(flags.farewellTitle[2], region)

\* The challenge-level text is on the subheading line of the greeting.
HasChallengeSubheading(flags, region) ==
    /\ flags.layout = "lines"
    /\ flags.greetingTitle[2] = getChallengeLevelColor(region.challengeLevel)

\* C22: with greetings and farewells on, the polygon block of every region
\* that has a challenge level has the two-line greeting and farewell titles
\* laid out by the greeting size alone, whatever the name of the region, and
\* the challenge-level text is on the subheading line exactly when the size
\* is large and the subheading option is on.
C22_TitlesBySizeOnly ==
    ( /\ call.fn = "generateRegionYAML"
      /\ options.useGreetingsAndFarewells
      /\ regions[1].challengeLevel # Null ) =>
        /\ TwoLineTitles(ret[1].flags, regions[1], options.greetingSize)
        /\ HasChallengeSubheading(ret[1].flags, regions[1])
               <=> ( options.greetingSize = "large"
                     /\ options.includeChallengeLevelSubheading )

\* ------------------------------------------- degenerate geometry inputs

\* A number num / den, den > 0.
Ratio(num, den) == [num |-> num, den |-> den]

Abs(v) == IF v < 0 THEN 0 - v ELSE v

\* The shoelace sum of the edges from 0-based index i on.
RECURSIVE shoelace(_, _)
shoelace(pts, i) ==
    IF i >= Len(pts) THEN 0
    ELSE LET j == (i + 1) % Len(pts)
         IN At(pts, i).x * At(pts, j).z - At(pts, j).x * At(pts, i).z
                + shoelace(pts, i + 1)

\* calculatePolygonArea: 0 under 3 points, else half the absolute sum.
calculatePolygonArea(pts) ==
    IF Len(pts) < 3 THEN Ratio(0, 1) ELSE Ratio(Abs(shoelace(pts, 0)), 2)

\* resizeRegionPoints: the points scaled about the center; the input itself
\* when it is empty or the factor is not positive.
resizeRegionPoints(pts, centerX, centerZ, scaleFactor) ==
    IF Len(pts) = 0 \/ scaleFactor <= 0 THEN pts
    ELSE [k \in 1..Len(pts) |->
             Pt(centerX + (pts[k].x - centerX) * scaleFactor,
                centerZ + (pts[k].z - centerZ) * scaleFactor)]

\* A point moved by warpRegionPoints: p pushed along (dx, dz) / dist by
\* strength * (1 - dist / radius), dist the square root of
\* max(dx * dx + dz * dz, 1e-8). The square root is kept as written.
Warped(p, dx, dz, radius, strength) ==
    [x |-> p.x, z |-> p.z, dx |-> dx, dz |-> dz, radius |-> radius,
     strength |-> strength]

\* warpRegionPoints: the points inside the radius pushed away from the
\* center; the input itself when it is empty, the radius is not positive or
\* the strength is zero.
warpRegionPoints(pts, centerX, centerZ, radius, strength) ==
    IF Len(pts) = 0 \/ radius <= 0 \/ strength = 0 THEN pts
    ELSE [k \in 1..Len(pts) |->
             LET dx == pts[k].x - centerX
                 dz == pts[k].z - centerZ
             IN IF dx * dx + dz * dz >= radius * radius THEN pts[k]
                ELSE Warped(pts[k], dx, dz, radius, strength)]

\* The square of the distance from the point to c = (c.x / c.den, c.z / c.den),
\* times c.den squared.
distSqNum(point, c) ==
    (point.x * c.den - c.x) * (point.x * c.den - c.x)
        + (point.z * c.den - c.z) * (point.z * c.den - c.z)

\* distance(point, a) < distance(point, b).
closer(point, a, b) ==
    distSqNum(point, a) * b.den * b.den < distSqNum(point, b) * a.den * a.den

\* The closest point to the point on the segment p1-p2: p1 + t (p2 - p1) with
\* t the projection clamped to [0, 1]; p1 for a segment of length 0.
closestOnSegment(point, p1, p2) ==
    LET dx == p2.x - p1.x
        dz == p2.z - p1.z
        lengthSq == dx * dx + dz * dz
        dot == (point.x - p1.x) * dx + (point.z - p1.z) * dz
    IN IF lengthSq = 0 \/ dot <= 0 THEN Center(p1.x, p1.z, 1)
       ELSE IF dot >= lengthSq THEN Center(p1.x + dx, p1.z + dz, 1)
       ELSE Center(p1.x * lengthSq + dot * dx, p1.z * lengthSq + dot * dz, lengthSq)

\* The loop of findClosestPointOnPolygonEdge from 0-based edge i on.
RECURSIVE closestFrom(_, _, _, _)
closestFrom(point, polygon, i, closestPoint) ==
    IF i >= Len(polygon) THEN closestPoint
    ELSE LET closest == closestOnSegment(point, At(polygon, i),
                                         At(polygon, (i + 1) % Len(polygon)))
         IN closestFrom(point, polygon, i + 1,
                        IF closer(point, closest, closestPoint)
                        THEN closest ELSE closestPoint)

\* What a call that ends in an exception leaves.
Thrown(error) == [threw |-> error]

\* findClosestPointOnPolygonEdge: reads polygon[0].x before the loop, which
\* is a TypeError on an empty polygon.
findClosestPointOnPolygonEdge(point, polygon) ==
    IF Len(polygon) = 0 THEN Thrown("TypeError")
    ELSE closestFrom(point, polygon, 0, Center(polygon[1].x, polygon[1].z, 1))

\* The arguments of the calls besides the points.
SplitEnds == {Pt(0, 0), Pt(HalfUnits, 0), Pt(HalfUnits, HalfUnits)}

ScaleFactors == (0 - 1)..2

Radii == (0 - 1)..2

Strengths == {0, 1}

Centers == {Pt(0, 0), Pt(HalfUnits, HalfUnits)}

Probes == {Pt(0, 0), Pt(1, 1), Pt(HalfUnits + 1, 1)}

CallResize(center, scaleFactor) ==
    /\ call = NoCall
    /\ call' = [fn |-> "resizeRegionPoints", center |-> center,
                scaleFactor |-> scaleFactor]
    /\ ret' = resizeRegionPoints(points, center.x, center.z, scaleFactor)
    /\ UNCHANGED <<points, appVars>>

CallWarp(center, radius, strength) ==
    /\ call = NoCall
    /\ call' = [fn |-> "warpRegionPoints", center |-> center, radius |-> radius,
                strength |-> strength]
    /\ ret' = warpRegionPoints(points, center.x, center.z, radius, strength)
    /\ UNCHANGED <<points, appVars>>

CallFindClosest(point) ==
    /\ call = NoCall
    /\ call' = [fn |-> "findClosestPointOnPolygonEdge", point |-> point]
    /\ ret' = findClosestPointOnPolygonEdge(point, points)
    /\ UNCHANGED <<points, appVars>>

CallCenter ==
    /\ call = NoCall
    /\ call' = [fn |-> "calculatePolygonCenter"]
    /\ ret' = calculatePolygonCenter(points)
    /\ UNCHANGED <<points, appVars>>

CallArea ==
    /\ call = NoCall
    /\ call' = [fn |-> "calculatePolygonArea"]
    /\ ret' = calculatePolygonArea(points)
    /\ UNCHANGED <<points, appVars>>

NextDegenerate ==
    \/ CallDouble
    \/ CallHalve
    \/ \E s1, s2 \in SplitEnds : CallSplit(s1, s2)
    \/ \E tolerance \in Tolerances : CallSimplify(tolerance)
    \/ \E center \in Centers, scaleFactor \in ScaleFactors :
           CallResize(center, scaleFactor)
    \/ \E center \in Centers, radius \in Radii, strength \in Strengths :
           CallWarp(center, radius, strength)
    \/ \E point \in Probes : CallFindClosest(point)
    \/ CallCenter
    \/ CallArea
    \/ \E point \in Probes : CallIsPointInPolygon(point)

SpecDegenerate == InitGeom /\ [][NextDegenerate]_vars

\* C23: no geometry function throws, on any point sequence, the empty one
\* included: splitPolygon and simplifyPolygonVertices under 3 points,
\* resizeRegionPoints with a factor <= 0 and warpRegionPoints with a radius
\* <= 0 return the input, and findClosestPointOnPolygonEdge,
\* calculatePolygonCenter, calculatePolygonArea and isPointInPolygon return a
\* result on the empty polygon.
C23_NoThrowAndNoOps ==
    /\ (call.fn = "splitPolygon" /\ Len(points) < 3) => ret = <<points, <<>>>>
    /\ (call.fn = "simplifyPolygonVertices" /\ Len(points) < 3) => ret = points
    /\ (call.fn = "resizeRegionPoints" /\ call.scaleFactor <= 0) => ret = points
    /\ (call.fn = "warpRegionPoints" /\ call.radius <= 0) => ret = points
    /\ call.fn \in {"doublePolygonVertices", "halvePolygonVertices"} =>
           Len(ret) >= Len(points) \div 2
    /\ call.fn = "findClosestPointOnPolygonEdge" => "x" \in DOMAIN ret
    /\ call.fn = "calculatePolygonCenter" => "x" \in DOMAIN ret
    /\ call.fn = "calculatePolygonArea" => ret.num >= 0
    /\ call.fn = "isPointInPolygon" => ret \in BOOLEAN

\* ------------------------------------------------- splits of larger polygons

\* The corners of one grid square: polygons of up to MaxSplitPoints vertices
\* on them have enough vertices on either side of a line for a split.
SplitCorners == {Pt(x, z) : x, z \in {0, HalfUnits}}

InitSplitParts ==
    /\ points \in SeqsUpTo(SplitCorners, MaxSplitPoints)
    /\ call = NoCall
    /\ ret = NoRet
    /\ AppIdle

SpecSplitParts == InitSplitParts /\ [][NextSplit]_vars

\* The signed side of a vertex relative to the line through the split points.
SignedSide(p, s1, s2) ==
    (s2.z - s1.z) * (p.x - s1.x) - (s2.x - s1.x) * (p.z - s1.z)

\* The indices of the vertices that belong to the first part.
FirstPart(pts, s1, s2) ==
    {k \in 1..Len(pts) :
        IF s1.x = s2.x THEN pts[k].x <= s1.x ELSE SignedSide(pts[k], s1, s2) <= 0}

\* C24: when splitPolygon accepts a split (its second result is not empty),
\* the two results partition the input: the first is the vertices of signed
\* side <= 0 (x <= the x of a vertical line), the second the others, each in
\* the order of the input, and the numbers of vertices add up to the input's.
C24_SplitPartitions ==
    (call.fn = "splitPolygon" /\ ret[2] # <<>>) =>
        LET first == FirstPart(points, call.splitPoint1, call.splitPoint2)
        IN /\ ret[1] = FilterIdx(points, first, 1)
           /\ ret[2] = FilterIdx(points, (1..Len(points)) \ first, 1)
           /\ Len(ret[1]) + Len(ret[2]) = Len(points)

\* An accepted split along a slanted line with a vertex on the line.
C24_Witness ==
    /\ call.fn = "splitPolygon"
    /\ ret[2] # <<>>
    /\ call.splitPoint1.x # call.splitPoint2.x
    /\ call.splitPoint1.z # call.splitPoint2.z
    /\ \E k \in 1..Len(ret[1]) :
           SignedSide(ret[1][k], call.splitPoint1, call.splitPoint2) = 0
    /\ \E k \in 1..Len(ret[1]) :
           SignedSide(ret[1][k], call.splitPoint1, call.splitPoint2) < 0

\* ---------------------------------------------------- halving, vertex order

\* The indices f[1], f[2], ... go round the input once in its order: some
\* rotation of them is strictly increasing.
CyclicallyIncreasing(f) ==
    LET m == Len(f)
    IN \E r \in 0..(m - 1) :
           \A i \in 1..(m - 1) :
               f[((r + i - 1) % m) + 1] < f[((r + i) % m) + 1]

\* The 1-based positions of the even-indexed (0-based) vertices.
EvenPositions(pts) == {k \in 1..Len(pts) : (k - 1) % 2 = 0}

\* C25: on more than 3 points halvePolygonVertices returns at least 3
\* vertices of the input, in the cyclic order of the input, namely all the
\* even-indexed vertices and, only when these are fewer than 3, odd-indexed
\* ones besides; on at most 3 points it returns the input.
C25_HalveKeepsOrder ==
    call.fn = "halvePolygonVertices" =>
        IF Len(points) <= 3 THEN ret = points
        ELSE /\ Len(ret) >= 3
             /\ \E f \in [1..Len(ret) -> 1..Len(points)] :
                    /\ \A i \in 1..Len(ret) : ret[i] = points[f[i]]
                    /\ CyclicallyIncreasing(f)
                    /\ EvenPositions(points) \subseteq {f[i] : i \in 1..Len(ret)}
                    /\ Cardinality(EvenPositions(points)) >= 3 =>
                           {f[i] : i \in 1..Len(ret)} = EvenPositions(points)

\* ------------------------------------------------------ findParentRegion

\* findParentRegion returning null.
NoRegion == [none |-> TRUE]

\* The 1-based indices of the regions findParentRegion accepts for a village.
parentCandidates(village, rs) ==
    {i \in 1..Len(rs) :
        /\ Len(rs[i].points) >= 3
        /\ isPointInPolygon(Pt(village.x, village.z), rs[i].points)}

\* findParentRegion with the last accepted region returned.
findParentRegionLast(village, rs) ==
    IF parentCandidates(village, rs) = {} THEN NoRegion
    ELSE rs[CHOOSE i \in parentCandidates(village, rs) :
                \A j \in parentCandidates(village, rs) : j <= i]

\* findParentRegion: the first region, in list order, of at least 3 points
\* that contains the village; null when there is none.
findParentRegion(village, rs) ==
    IF parentCandidates(village, rs) = {} THEN NoRegion
    ELSE rs[CHOOSE i \in parentCandidates(village, rs) :
                \A j \in parentCandidates(village, rs) : i <= j]

\* A segment right of the inside of Triangle: the ray of a point there
\* crosses it.
UprightSegment == <<Pt(2 * HalfUnits, 0), Pt(2 * HalfUnits, 2 * HalfUnits)>>

\* A triangle that overlaps Triangle.
OtherTriangle == <<Pt(0, 0), Pt(2 * HalfUnits, 0), Pt(2 * HalfUnits, 2 * HalfUnits)>>

\* Collections of up to MaxRegions regions: no points, a segment or a
\* triangle each.
ParentRegionLists ==
    UNION {{[i \in 1..n |-> Region(IdNames[i], f[i], "Vanilla", FALSE, <<>>)] :
                f \in [1..n -> {<<>>, UprightSegment, Triangle, OtherTriangle}]} :
           n \in 0..MaxRegions}

InitParent ==
    /\ points \in SeqsUpTo(GridPoints, 2)
    /\ call = NoCall
    /\ ret = NoRet
    /\ regions \in ParentRegionLists
    /\ selectedRegionId = Null
    /\ worldType = "overworld"
    /\ spawnState = [coordinates |-> NoCoordinates, radius |-> 0]
    /\ options = DefaultOptions
    /\ reads = <<>>
    /\ isImporting = FALSE
    /\ importError = Null
    /\ PanelIdle

CallFindParentRegion(village) ==
    /\ call = NoCall
    /\ call' = [fn |-> "findParentRegion", village |-> village]
    /\ ret' = findParentRegion(village, regions)
    /\ UNCHANGED <<geomVars, appVars>>

NextParent ==
    \/ \E point \in TestPoints : CallIsPointInPolygon(point)
    \/ \E village \in TestPoints : CallFindParentRegion(village)

SpecParent == InitParent /\ [][NextParent]_vars

\* The regions of at least 3 points that contain the village.
Containing(village, rs) ==
    {i \in 1..Len(rs) :
        Len(rs[i].points) >= 3 /\ isPointInPolygon(village, rs[i].points)}

\* What holds of points on whole and half blocks, where the arithmetic of
\* the edge test is exact: isPointInPolygon is false for every point on every
\* polygon of fewer than 3 vertices, also a 2-point segment the ray crosses;
\* findParentRegion skips the regions of fewer than 3 points and returns the
\* first region in list order that contains the village, or null.
FewVerticesContainNoBlock ==
    /\ (call.fn = "isPointInPolygon" /\ Len(points) < 3) => ret = FALSE
    /\ call.fn = "findParentRegion" =>
           /\ \A i \in 1..Len(regions) :
                  Len(regions[i].points) < 3 => ret # regions[i]
           /\ IF Containing(call.village, regions) = {}
              THEN ret = NoRegion
              ELSE \E i \in Containing(call.village, regions) :
                       /\ ret = regions[i]
                       /\ \A j \in Containing(call.village, regions) : i <= j

\* A village left of a segment region, at its height, and inside the
\* triangle that follows in the list.
SegmentSkippedForTriangle ==
    /\ call.fn = "findParentRegion"
    /\ Len(regions) = 2
    /\ regions[1].points = UprightSegment
    /\ call.village.x < UprightSegment[1].x
    /\ UprightSegment[1].z < call.village.z
    /\ call.village.z < UprightSegment[2].z
    /\ Containing(call.village, regions) = {2}
    /\ ret = regions[2]

\* --------------------------------------------------------- block keys

\* More names, spelled out.
OakLowerName == <<"o", "a", "k">>

TestValeWideName == <<"T", "e", "s", "t", " ", " ", "V", "a", "l", "e">>

TestValeSnakeName == <<"t", "e", "s", "t", "_", "v", "a", "l", "e">>

HeartOfOakName == <<"H", "e", "a", "r", "t", " ", "o", "f", " ", "O", "a", "k">>

\* The names regions are given here.
KeyRegionNames ==
    {OakName, OakLowerName, TestValeName, TestValeWideName, TestValeSnakeName,
     HeartOfOakName}

\* The names villages are given here.
KeyVillageNames == {OakLowerName, TestValeSnakeName, HeartwoodName}

\* The subregions of the i-th region: none, or a village of any of the names.
KeySubregionLists(i) ==
    {<<>>} \cup {<<[Village(VillageNames[i], IdNames[i]) EXCEPT !.name = name]>> :
                    name \in KeyVillageNames}

\* Collections of up to MaxRegions finished regions, named.
KeyRegionLists ==
    UNION {{[i \in 1..n |->
                [Region(IdNames[i], Triangle, "Vanilla", FALSE, f[i].subs)
                    EXCEPT !.name = f[i].name]] :
                f \in {h \in [1..n -> [name : KeyRegionNames,
                                       subs : UNION {KeySubregionLists(k) : k \in 1..n}]] :
                           \A k \in 1..n : h[k].subs \in KeySubregionLists(k)}} :
           n \in 0..MaxRegions}

InitKeys ==
    /\ points = <<>>
    /\ call = NoCall
    /\ ret = NoRet
    /\ regions \in KeyRegionLists
    /\ selectedRegionId = Null
    /\ worldType = "overworld"
    /\ spawnState = [coordinates |-> NoCoordinates, radius |-> 0]
    /\ options \in {o \in OptionSets : o.includeSpawnRegion}
    /\ reads = <<>>
    /\ isImporting = FALSE
    /\ importError = Null
    /\ PanelIdle

NextKeys == HandleExportYAML

SpecKeys == InitKeys /\ [][NextKeys]_vars

\* The names of the regions and of their villages, one entry per region and
\* per village.
AllNames(rs) ==
    Flatten([i \in 1..Len(rs) |->
                <<rs[i].name>> \o [k \in 1..Len(rs[i].subregions) |->
                                      rs[i].subregions[k].name]], 1)

\* No two entries of a sequence are equal.
PairwiseDistinct(s) == \A i, j \in 1..Len(s) : i # j => s[i] # s[j]

\* The keys of the blocks of a file, in the order of the blocks.
KeysOf(content) == [i \in 1..Len(content) |-> content[i].key]

\* C27: when the names of the regions and villages are pairwise distinct,
\* the keys of the blocks of regions.yml (regions, hearts, villages) are
\* pairwise distinct.
C27_DistinctNamesDistinctKeys ==
    (call.fn = "handleExportYAML" /\ PairwiseDistinct(AllNames(regions))) =>
        \A d \in 1..Len(ret.downloads) :
            PairwiseDistinct(KeysOf(ret.downloads[d].content))

\* ------------------------------------------- achievements and their events

InitDiscovery ==
    /\ points = <<>>
    /\ call = NoCall
    /\ ret = NoRet
    /\ regions \in KeyRegionLists
    /\ selectedRegionId = Null
    /\ worldType \in WorldTypes
    /\ spawnState = [coordinates |-> NoCoordinates, radius |-> 0]
    /\ options = DefaultOptions
    /\ reads = <<>>
    /\ isImporting = FALSE
    /\ importError = Null
    /\ PanelIdle

NextDiscovery ==
    \/ CallGenerateAchievementsYAML
    \/ CallGenerateEventConditionsYAML

SpecDiscovery == InitDiscovery /\ [][NextDiscovery]_vars

\* The entries of achievements.yml written for the region list and world type.
AchievementsOf(rs, wt) == generateAchievementsYAML(rs, wt).downloads[1].content

\* C28: every achievement an event of event_conditions.yml gives is a key of
\* achievements.yml written for the same regions and world type, and every
\* achievement key is given by exactly as many events as achievements.yml
\* has entries of that key: one event per entry.
C28_EventsGiveTheAchievements ==
    (call.fn = "generateEventConditionsYAML" /\ Len(regions) > 0) =>
        LET events == ret.downloads[1].content
            achievements == AchievementsOf(regions, worldType)
        IN /\ \A e \in 1..Len(events) :
                  \E a \in 1..Len(achievements) :
                      achievements[a].key = events[e].gives
           /\ \A a \in 1..Len(achievements) :
                  Cardinality({e \in 1..Len(events) :
                                   events[e].gives = achievements[a].key})
                      = Cardinality({b \in 1..Len(achievements) :
                                         achievements[b].key = achievements[a].key})

\* The events of the region Test Vale, which has a village: the first gives
\* discoverTestVale, the second discoverHeartOfTestVale.
C28_Witness ==
    /\ call.fn = "generateEventConditionsYAML"
    /\ Len(regions) = 2
    /\ regions[1].name = TestValeName
    /\ Len(regions[1].subregions) = 1
    /\ Len(ret.downloads[1].content) = 5
    /\ ret.downloads[1].content[1].gives =
           <<"d", "i", "s", "c", "o", "v", "e", "r", "T", "e", "s", "t", "V", "a", "l", "e">>
    /\ ret.downloads[1].content[2].gives =
           <<"d", "i", "s", "c", "o", "v", "e", "r", "H", "e", "a", "r", "t", "O", "f",
             "T", "e", "s", "t", "V", "a", "l", "e">>

\* -------------------------------------------- export settings of the panel

\* The effects of ExportPanel still to run, in the order React runs them.
LoadEffect == [effect |-> "load"]

\* The state the load effect has set, applied by the render that follows.
RenderAfterLoad(savedSettings) == [effect |-> "render", settings |-> savedSettings]

\* The save effect of a render, with the values that render saw.
SaveEffect(initialized, settings) ==
    [effect |-> "save", isInitialized |-> initialized, settings |-> settings]

\* The save effect: saveExportSettings with the values of its render, once
\* the panel is initialized.
runSaveEffect(e) ==
    IF e.isInitialized
    THEN /\ storage' = e.settings
         /\ call' = [fn |-> "saveExportSettings", isInitialized |-> isInitialized]
    ELSE /\ call' = [fn |-> "saveSkipped"]
         /\ UNCHANGED storage

\* Settings another writer can leave in localStorage: a project's, or those
\* of a panel in another tab.
ExternalSettings ==
    {[DefaultOptions EXCEPT !.includeVillages = TRUE],
     [DefaultOptions EXCEPT !.greetingSize = "chat",
                            !.useGreetingsAndFarewells = TRUE]}

\* The option values one change of a control away from o.
OptionChanges(o) ==
    {[o EXCEPT !.includeVillages = ~o.includeVillages],
     [o EXCEPT !.includeHeartRegions = ~o.includeHeartRegions],
     [o EXCEPT !.greetingSize = IF o.greetingSize = "large" THEN "small" ELSE "large"]}

InitSettings ==
    /\ points = <<>>
    /\ call = NoCall
    /\ ret = NoRet
    /\ regions = <<>>
    /\ selectedRegionId = Null
    /\ worldType = "overworld"
    /\ spawnState = [coordinates |-> NoCoordinates, radius |-> 0]
    /\ options = DefaultOptions
    /\ reads = <<>>
    /\ isImporting = FALSE
    /\ importError = Null
    /\ VillageImportIdle
    /\ storage \in {NoSettings} \cup ExternalSettings
    /\ isInitialized = FALSE
    /\ panel = [mounted |-> FALSE, effects |-> <<>>, notifications |-> 0,
                events |-> 0]

settingsRest == <<points, ret, regions, selectedRegionId, worldType, spawnState,
                  reads, isImporting, importError, villageVars>>

\* The panel mounts: its state is the defaults, and the load effect and the
\* save effect of the first render are to run.
MountPanel ==
    /\ ~panel.mounted
    /\ options' = DefaultOptions
    /\ isInitialized' = FALSE
    /\ panel' = [panel EXCEPT !.mounted = TRUE,
                              !.effects = <<LoadEffect,
                                            SaveEffect(FALSE, DefaultOptions)>>,
                              !.notifications = 0]
    /\ call' = [fn |-> "mount"]
    /\ UNCHANGED <<storage, settingsRest>>

\* The load effect: loadExportSettings, then the setters and
\* setIsInitialized(true), which the next render applies.
RunLoadEffect ==
    /\ panel.mounted
    /\ panel.effects # <<>>
    /\ Head(panel.effects).effect = "load"
    /\ panel' = [panel EXCEPT !.effects = Append(Tail(panel.effects),
                                                 RenderAfterLoad(storage))]
    /\ call' = [fn |-> "loadExportSettings"]
    /\ UNCHANGED <<storage, options, isInitialized, settingsRest>>

\* The render after the load effect: the saved settings, if any, are the
\* state, isInitialized is true, and the save effect is to run again.
RunRender ==
    /\ panel.mounted
    /\ panel.effects # <<>>
    /\ Head(panel.effects).effect = "render"
    /\ LET loaded == Head(panel.effects).settings
           state == IF loaded # NoSettings THEN loaded ELSE options
       IN /\ options' = state
          /\ isInitialized' = TRUE
          /\ panel' = [panel EXCEPT !.effects = Append(Tail(panel.effects),
                                                       SaveEffect(TRUE, state))]
    /\ call' = [fn |-> "render"]
    /\ UNCHANGED <<storage, settingsRest>>

\* The save effect of a render runs.
RunSaveEffect ==
    /\ panel.mounted
    /\ panel.effects # <<>>
    /\ Head(panel.effects).effect = "save"
    /\ runSaveEffect(Head(panel.effects))
    /\ panel' = [panel EXCEPT !.effects = Tail(panel.effects)]
    /\ UNCHANGED <<options, isInitialized, settingsRest>>

\* The user changes an option: the panel renders with the new value and the
\* save effect is to run.
OptionChange(o) ==
    /\ panel.mounted
    /\ panel.events < MaxEvents
    /\ options' = o
    /\ panel' = [panel EXCEPT !.effects = Append(panel.effects,
                                                 SaveEffect(isInitialized, o)),
                              !.events = panel.events + 1]
    /\ call' = [fn |-> "optionChange"]
    /\ UNCHANGED <<storage, isInitialized, settingsRest>>

\* Another writer sets or removes the saved settings; a mounted panel is sent
\* the storage or exportSettingsUpdated event.
ExternalUpdate(s) ==
    /\ panel.events < MaxEvents
    /\ storage # s
    /\ storage' = s
    /\ panel' = [panel EXCEPT !.notifications = IF panel.mounted
                                                THEN panel.notifications + 1
                                                ELSE 0,
                              !.events = panel.events + 1]
    /\ call' = [fn |-> "externalUpdate"]
    /\ UNCHANGED <<options, isInitialized, settingsRest>>

\* handleStorageChange / handleExportSettingsUpdate: loadSettings sets the
\* state to the saved settings, if there are any; the panel renders and, the
\* values having changed, the save effect is to run.
HandleNotification ==
    /\ panel.mounted
    /\ panel.notifications > 0
    /\ IF storage # NoSettings /\ storage # options
       THEN /\ options' = storage
            /\ panel' = [panel EXCEPT !.notifications = panel.notifications - 1,
                                      !.effects = Append(panel.effects,
                                                         SaveEffect(isInitialized,
                                                                    storage))]
       ELSE /\ panel' = [panel EXCEPT !.notifications = panel.notifications - 1]
            /\ UNCHANGED options
    /\ call' = [fn |-> "loadSettings"]
    /\ UNCHANGED <<storage, isInitialized, settingsRest>>

\* The panel unmounts; React has run its effects before.
UnmountPanel ==
    /\ panel.mounted
    /\ panel.events < MaxEvents
    /\ panel.effects = <<>>
    /\ panel' = [panel EXCEPT !.mounted = FALSE, !.notifications = 0,
                              !.events = panel.events + 1]
    /\ call' = [fn |-> "unmount"]
    /\ UNCHANGED <<storage, options, isInitialized, settingsRest>>

NextSettings ==
    \/ MountPanel
    \/ RunLoadEffect
    \/ RunRender
    \/ RunSaveEffect
    \/ \E o \in OptionChanges(options) : OptionChange(o)
    \/ \E s \in {NoSettings} \cup ExternalSettings : ExternalUpdate(s)
    \/ HandleNotification
    \/ UnmountPanel

SpecSettings == InitSettings /\ [][NextSettings]_vars

\* React runs the effects of a commit, and the browser delivers the events.
SpecSettingsFair ==
    /\ SpecSettings
    /\ WF_vars(RunLoadEffect)
    /\ WF_vars(RunRender)
    /\ WF_vars(RunSaveEffect)
    /\ WF_vars(HandleNotification)

\* saveExportSettings is called only once the load effect has set the state.
SavedOnlyAfterLoad == call.fn = "saveExportSettings" => call.isInitialized

\* While the panel mounts (until its state is initialized) the saved settings
\* stay as they are, unless another writer changes them.
MountKeepsSettings ==
    [][(panel.mounted /\ ~isInitialized /\ call'.fn # "externalUpdate")
          => storage' = storage]_vars

\* C29 as stated: mounting the panel never overwrites the saved settings with
\* the defaults, saveExportSettings is not called before the saved settings
\* are loaded into the state, and after any option changes and outside
\* notifications the saved settings eventually equal the options of the
\* panel, and stay so.
C29_SettingsFollowPanel ==
    /\ []SavedOnlyAfterLoad
    /\ MountKeepsSettings
    /\ <>[](panel.mounted => storage = options)

\* What holds of the settings: as C29, but the saved settings eventually
\* equal the options of the panel only if there are saved settings. Settings
\* another writer has removed are not written again before the next option
\* change.
SettingsFollowPanelIfAny ==
    /\ []SavedOnlyAfterLoad
    /\ MountKeepsSettings
    /\ <>[]((panel.mounted /\ storage # NoSettings) => storage = options)

\* ------------------------------------------- the busy flags of the imports

\* A chosen village file: whether it can be read, its lines, and whether its
\* blank lines hold whitespace characters.
VillageFile(readable, padded, lines) ==
    [readable |-> readable, padded |-> padded, lines |-> lines]

VillageRow == <<"123", "Village", "50", "50", "foo">>

VillageFiles ==
    {VillageFile(FALSE, FALSE, <<BlankLine>>),
     VillageFile(TRUE, FALSE, <<BlankLine>>),
     VillageFile(TRUE, TRUE, <<BlankLine, BlankLine>>),
     VillageFile(TRUE, TRUE, <<HeaderLine, VillageRow, BlankLine>>),
     VillageFile(TRUE, FALSE, <<CommentLine>>)}

\* !text without the trim: only the file of no character at all is empty.
isBlankTextNoTrim(file) == ~file.padded /\ file.lines = <<BlankLine>>

\* !text.trim(): the text has no character that is not whitespace.
isBlankText(file) == \A i \in 1..Len(file.lines) : file.lines[i] = BlankLine

\* A region wide enough to hold the villages of the files.
Homeland == <<Pt(0, 0), Pt(200 * HalfUnits, 0), Pt(0, 200 * HalfUnits)>>

\* The projects chosen for import: unreadable, not valid, and a valid one
\* with a small region and a wide one.
BusyDocs ==
    {Doc(FALSE, FALSE, FALSE, FALSE, <<>>, FALSE),
     Doc(TRUE, TRUE, FALSE, TRUE, <<>>, TRUE),
     Doc(TRUE, TRUE, TRUE, TRUE,
         <<Region(IdNames[1], Triangle, "Vanilla", FALSE, <<>>),
           Region(IdNames[2], Homeland, "Vanilla", FALSE, <<>>)>>, TRUE)}

\* The names of the subregions of a collection.
subregionNames(rs) ==
    UNION {{rs[i].subregions[j].name : j \in 1..Len(rs[i].subregions)} :
              i \in 1..Len(rs)}

\* The number of subregions of a collection.
RECURSIVE subregionCount(_, _)
subregionCount(rs, i) ==
    IF i > Len(rs) THEN 0
    ELSE Len(rs[i].subregions) + subregionCount(rs, i + 1)

\* The parent region of a parsed village, its coordinates taken in half
\* blocks; a village with a NaN coordinate is in no region.
parentOfVillage(village, rs) ==
    IF village.x = NaN \/ village.z = NaN THEN NoRegion
    ELSE findParentRegion([x |-> HalfUnits * village.x.int,
                           z |-> HalfUnits * village.z.int], rs)

\* The villages from index k on are added, one after the other, to the
\* subregions of their parent regions; a village in no region is left out.
RECURSIVE addVillages(_, _, _, _)
addVillages(rs, villages, k, generator) ==
    IF k >= Len(villages) THEN rs
    ELSE LET village == At(villages, k)
             parent == parentOfVillage(village, rs)
         IN IF parent = NoRegion
            THEN addVillages(rs, villages, k + 1, generator)
            ELSE addVillages(
                     updateRegion(rs, parent.id, "subregions",
                         Append(parent.subregions,
                                createVillageSubregion(village, k, parent.id,
                                    subregionNames(rs), generator))),
                     villages, k + 1, generator)

\* regions.importVillagesFromCSV(text) of the regions context: the text is
\* parsed once, and its villages are added to the regions.
importVillagesFromCSV(rs, csvContent, generator) ==
    CHOOSE result \in {addVillages(rs, villages, 0, generator) :
                          villages \in {parseVillageCSV(csvContent)}} : TRUE

\* The name generator of an import: it returns "A" and, asked again, "B".
BusyGenerators == {g \in Generators : g[0] # g[1]}

\* The panels at rest.
InitBusy ==
    /\ points = <<>>
    /\ call = NoCall
    /\ ret = NoRet
    /\ AppIdle

busyRest == <<points, ret, selectedRegionId, worldType, spawnState, options,
              reads, isImporting, importError, storage, isInitialized, panel>>

\* handleVillageImport up to its await: a file is chosen and its read starts.
HandleVillageImport(file) ==
    /\ Len(villageReads) < MaxReads
    /\ subregionCount(regions, 1) + Len(villageReads) < MaxVillages
    /\ isImportingVillages' = TRUE
    /\ villageImportError' = Null
    /\ villageReads' = Append(villageReads, file)
    /\ call' = [fn |-> "handleVillageImport"]
    /\ UNCHANGED <<regions, busyRest>>

\* A pending read of a village file settles and handleVillageImport runs on
\* from its await: a rejected read and a text that trims to nothing set the
\* error, any other text is handed to importVillagesFromCSV;
\* isImportingVillages is reset in either case.
VillageImportSettles(i, generator) ==
    /\ i \in 1..Len(villageReads)
    /\ LET file == villageReads[i]
       IN IF ~file.readable
          THEN /\ villageImportError' = "The file could not be read"
               /\ call' = [fn |-> "villageImportSettled", read |-> i,
                           file |-> file, imported |-> FALSE]
               /\ UNCHANGED regions
          ELSE IF isBlankText(file)
          THEN /\ villageImportError' = "File is empty or contains no valid data"
               /\ call' = [fn |-> "villageImportSettled", read |-> i,
                           file |-> file, imported |-> FALSE]
               /\ UNCHANGED regions
          ELSE /\ regions' = importVillagesFromCSV(regions, file.lines, generator)
               /\ call' = [fn |-> "villageImportSettled", read |-> i,
                           file |-> file, imported |-> TRUE]
               /\ UNCHANGED villageImportError
    /\ isImportingVillages' = FALSE
    /\ villageReads' = RemoveAt(villageReads, i)
    /\ UNCHANGED busyRest

NextBusy ==
    \/ \E doc \in BusyDocs : HandleImport(doc)
    \/ \E i \in 1..MaxReads : ImportSettles(i)
    \/ \E file \in VillageFiles : HandleVillageImport(file)
    \/ \E i \in 1..MaxReads, generator \in BusyGenerators :
           VillageImportSettles(i, generator)

SpecBusy == InitBusy /\ [][NextBusy]_vars

\* A file read that was started settles: the promise of importMapData is
\* resolved or rejected by the FileReader, that of file.text() by the browser.
SpecBusyFair ==
    /\ SpecBusy
    /\ \A i \in 1..MaxReads : WF_vars(ImportSettles(i))
    /\ \A i \in 1..MaxReads :
           WF_vars(\E generator \in BusyGenerators :
                       VillageImportSettles(i, generator))

\* A step that starts a read leaves the flag of its panel set.
FlagSetWhenReadStarts ==
    [][/\ Len(reads') > Len(reads) => isImporting'
       /\ Len(villageReads') > Len(villageReads) => isImportingVillages']_vars

\* A step in which a read settles leaves the flag of its panel reset, and
\* after a failure the error set.
FlagResetWhenReadSettles ==
    [][/\ Len(reads') < Len(reads)
            => ~isImporting' /\ (~call'.ok => importError' # Null)
       /\ Len(villageReads') < Len(villageReads)
            => ~isImportingVillages'
                  /\ (~call'.imported => villageImportError' # Null)]_vars

\* The read of a village file of whitespace only sets the error and leaves
\* the regions as they are: importVillagesFromCSV is not called.
BlankFileIsAnError ==
    [][(/\ call'.fn = "villageImportSettled"
        /\ Len(villageReads') < Len(villageReads)
        /\ call'.file.readable
        /\ \A k \in 1..Len(call'.file.lines) : call'.file.lines[k] = BlankLine)
          => /\ ~call'.imported
             /\ villageImportError' # Null
             /\ regions' = regions]_vars

\* C30: handleImport and handleVillageImport set their busy flag before the
\* read of the chosen file starts, the flag is reset when the read settles,
\* with success or with failure, a set flag is eventually reset, and an empty
\* or whitespace-only village file sets the error without a call of
\* importVillagesFromCSV.
C30_BusyFlagsSetAndReset ==
    /\ FlagSetWhenReadStarts
    /\ FlagResetWhenReadSettles
    /\ BlankFileIsAnError
    /\ [](reads = <<>> => ~isImporting)
    /\ [](villageReads = <<>> => ~isImportingVillages)
    /\ (isImporting ~> ~isImporting)
    /\ (isImportingVillages ~> ~isImportingVillages)

\* The read of a whitespace-only village file has settled with the error,
\* after the read of a file with villages that was started later had settled
\* and its villages were added, and no read is pending.
C30_Witness ==
    /\ call.fn = "villageImportSettled"
    /\ ~call.imported
    /\ call.file.readable
    /\ call.file.padded
    /\ villageImportError = "File is empty or contains no valid data"
    /\ ~isImportingVillages
    /\ villageReads = <<>>
    /\ subregionCount(regions, 1) > 0
    /\ ~isImporting
    /\ importError = Null

\* ------------------------------------- isPointInPolygon in the number type

\* A number of the source is a double: a sign, a whole part and the binary
\* digits after the point, the last of them 1, of at most mantissaBits
\* significant digits in all. Zero has no sign.
Double(neg, int, frac) == [neg |-> neg, int |-> int, frac |-> frac]

RECURSIVE bitLength(_)
bitLength(n) == IF n = 0 THEN 0 ELSE 1 + bitLength(n \div 2)

RECURSIVE leadingZeros(_, _)
leadingZeros(frac, k) ==
    IF k > Len(frac) \/ frac[k] = 1 THEN 0 ELSE 1 + leadingZeros(frac, k + 1)

\* The significant binary digits of int + 0.frac.
significantBits(int, frac) ==
    IF int > 0 THEN bitLength(int) + Len(frac)
    ELSE Len(frac) - leadingZeros(frac, 1)

RECURSIVE stripZeros(_)
stripZeros(frac) ==
    IF frac = <<>> \/ frac[Len(frac)] = 1 THEN frac
    ELSE stripZeros(SubSeq(frac, 1, Len(frac) - 1))

\* int + 0.frac and one unit in the last place of frac.
RECURSIVE nextUp(_, _, _)
nextUp(int, frac, k) ==
    IF k = 0 THEN [int |-> int + 1, frac |-> frac]
    ELSE IF frac[k] = 0 THEN [int |-> int, frac |-> [frac EXCEPT ![k] = 1]]
    ELSE nextUp(int, [frac EXCEPT ![k] = 0], k - 1)

\* The number of a sign and a magnitude, zero digits at the end dropped.
normalize(neg, magnitude) ==
    LET frac == stripZeros(magnitude.frac)
    IN Double(neg /\ (magnitude.int # 0 \/ frac # <<>>), magnitude.int, frac)

\* The digits of r / d after the point, r < d, up to the last significant
\* digit of the mantissa, with the remainder left over.
RECURSIVE longDivision(_, _, _, _)
longDivision(r, d, significant, frac) ==
    IF r = 0 \/ significant = mantissaBits THEN [frac |-> frac, r |-> r]
    ELSE LET bit == IF 2 * r >= d THEN 1 ELSE 0
         IN longDivision(2 * r - bit * d, d,
                         IF significant > 0 \/ bit = 1 THEN significant + 1 ELSE 0,
                         Append(frac, bit))

\* a / b for whole numbers a and b # 0 of few digits: the quotient rounded
\* to the nearest double, a tie to the even one.
divide(a, b) ==
    LET n == IF a < 0 THEN 0 - a ELSE a
        d == IF b < 0 THEN 0 - b ELSE b
        int == n \div d
        digits == longDivision(n % d, d, bitLength(int), <<>>)
        odd == IF digits.frac = <<>> THEN int % 2 = 1
               ELSE digits.frac[Len(digits.frac)] = 1
        up == 2 * digits.r > d \/ (2 * digits.r = d /\ odd)
    IN normalize((a < 0) # (b < 0),
                 IF up THEN nextUp(int, digits.frac, Len(digits.frac))
                 ELSE [int |-> int, frac |-> digits.frac])

\* 1 - 0.frac for digits that end in 1.
complement(frac) ==
    [k \in 1..Len(frac) |-> IF k < Len(frac) THEN 1 - frac[k] ELSE 1]

\* int + 0.frac rounded to the digits of the mantissa, a tie to the even.
roundToMantissa(int, frac) ==
    LET extra == significantBits(int, frac) - mantissaBits
        kept == SubSeq(frac, 1, Len(frac) - extra)
        dropped == SubSeq(frac, Len(frac) - extra + 1, Len(frac))
        odd == IF kept = <<>> THEN int % 2 = 1 ELSE kept[Len(kept)] = 1
        up == dropped[1] = 1 /\ (Len(dropped) > 1 \/ odd)
    IN IF extra <= 0 THEN [int |-> int, frac |-> frac]
       ELSE IF up THEN nextUp(int, kept, Len(kept))
       ELSE [int |-> int, frac |-> kept]

\* x + c for a double x and a whole number c of few digits: the sum, rounded.
addWhole(x, c) ==
    IF x.frac = <<>>
    THEN LET sum == c + (IF x.neg THEN 0 - x.int ELSE x.int)
         IN Double(sum < 0, IF sum < 0 THEN 0 - sum ELSE sum, <<>>)
    ELSE LET n == IF x.neg THEN c - x.int - 1 ELSE c + x.int
             frac == IF x.neg THEN complement(x.frac) ELSE x.frac
         IN IF n >= 0
            THEN normalize(FALSE, roundToMantissa(n, frac))
            ELSE normalize(TRUE, roundToMantissa(0 - n - 1, complement(frac)))

\* 0.f < 0.g
RECURSIVE fracLess(_, _, _)
fracLess(f, g, k) ==
    IF k > Len(g) THEN FALSE
    ELSE IF k > Len(f) THEN TRUE
    ELSE IF f[k] # g[k] THEN f[k] < g[k]
    ELSE fracLess(f, g, k + 1)

magnitudeLess(x, y) ==
    x.int < y.int \/ (x.int = y.int /\ fracLess(x.frac, y.frac, 1))

\* x < y
lessThan(x, y) ==
    IF x.neg # y.neg THEN x.neg
    ELSE IF x.neg THEN magnitudeLess(y, x)
    ELSE magnitudeLess(x, y)

\* The test of one edge (polygon[i], polygon[j]) as the source computes it,
\* for vertices and a point.z on whole blocks and a point.x that is a double:
\*   point.x < (xj - xi) * (point.z - zi) / (zj - zi) + xi
\* The product is exact, the quotient and the sum are rounded.
edgeTogglesDouble(point, polygon, i, j) ==
    LET pi == At(polygon, i)
        pj == At(polygon, j)
    IN /\ (pi.z > point.z) # (pj.z > point.z)
       /\ lessThan(point.x,
                   addWhole(divide((pj.x - pi.x) * (point.z - pi.z), pj.z - pi.z),
                            pi.x))

\* isPointInPolygon on these points.
isPointInPolygonDouble(point, polygon) ==
    LET n == Len(polygon)
        prev(i) == IF i = 0 THEN n - 1 ELSE i - 1
        toggles == {i \in 0..(n - 1) : edgeTogglesDouble(point, polygon, i, prev(i))}
    IN Cardinality(toggles) % 2 = 1

\* Vertices on whole blocks.
BlockPoints == {Pt(x, z) : x \in 0..(GridMax + 1), z \in 0..(GridMax + 1)}

\* A triangle with a slanted edge, from each of its corners and in both
\* winding orders.
SlantedTriangles ==
    {<<a, b, c>> : a, b, c \in {Pt(0, 0), Pt(1, GridMax + 1), Pt(0, GridMax + 1)}}
        \ {t \in [1..3 -> BlockPoints] : t[1] = t[2] \/ t[2] = t[3] \/ t[1] = t[3]}

\* Polygons still being drawn, of no point, one point, or two, and the
\* triangles.
InitDoubles ==
    /\ points \in SeqsUpTo(BlockPoints, 2) \cup SlantedTriangles
    /\ call = NoCall
    /\ ret = NoRet
    /\ AppIdle

\* isPointInPolygon on the point (a / b, z).
CallIsPointInPolygonDouble(a, b, z) ==
    /\ call = NoCall
    /\ call' = [fn |-> "isPointInPolygon", point |-> Pt(divide(a, b), z),
                a |-> a, b |-> b]
    /\ ret' = isPointInPolygonDouble(Pt(divide(a, b), z), points)
    /\ UNCHANGED <<points, appVars>>

NextDoubles ==
    \E b \in 1..MaxDivisor, a \in 0..(MaxDivisor * (GridMax + 1)), z \in 0..(GridMax + 1) :
        CallIsPointInPolygonDouble(a, b, z)

SpecDoubles == InitDoubles /\ [][NextDoubles]_vars

\* C26: isPointInPolygon returns false for every point and every polygon of
\* fewer than 3 vertices, also for a segment of 2 points that the ray
\* crosses.
C26_FewVerticesContainNothing ==
    (call.fn = "isPointInPolygon" /\ Len(points) < 3) => ret = FALSE

\* 0.frac from its k-th digit on against r / d, r < d, exactly: -1 when it is
\* less, 0 when equal, 1 when greater.
RECURSIVE fracCompare(_, _, _, _)
fracCompare(frac, k, r, d) ==
    IF k > Len(frac) THEN (IF r = 0 THEN 0 ELSE 0 - 1)
    ELSE LET bit == IF 2 * r >= d THEN 1 ELSE 0
         IN IF frac[k] # bit THEN (IF frac[k] < bit THEN 0 - 1 ELSE 1)
            ELSE fracCompare(frac, k + 1, 2 * r - bit * d, d)

\* A double x >= 0 against n / d for whole numbers n >= 0 and d > 0, exactly.
compareExactly(x, n, d) ==
    IF x.int # n \div d THEN (IF x.int < n \div d THEN 0 - 1 ELSE 1)
    ELSE fracCompare(x.frac, 1, n % d, d)

\* The point against the place where the line of the edge (a, b), not level,
\* has the height of the point, exactly.
AgainstEdge(point, a, b) ==
    LET lo == IF a.z < b.z THEN a ELSE b
        hi == IF a.z < b.z THEN b ELSE a
        dz == hi.z - lo.z
    IN compareExactly(point.x, lo.x * dz + (hi.x - lo.x) * (point.z - lo.z), dz)

\* The point is on an edge of the polygon.
OnBoundaryExactly(point, polygon) ==
    \E i \in 0..(Len(polygon) - 1) :
        LET a == At(polygon, i)
            b == At(polygon, (i + 1) % Len(polygon))
        IN IF a.z = b.z
           THEN /\ point.z = a.z
                /\ compareExactly(point.x, IF a.x < b.x THEN a.x ELSE b.x, 1) >= 0
                /\ compareExactly(point.x, IF a.x < b.x THEN b.x ELSE a.x, 1) <= 0
           ELSE /\ (a.z <= point.z /\ point.z <= b.z) \/ (b.z <= point.z /\ point.z <= a.z)
                /\ AgainstEdge(point, a, b) = 0

\* The ray from the point toward +x crosses an odd number of edges; an edge
\* counts from its lower end up to, but without, its upper end.
InsideExactly(point, polygon) ==
    LET crossed == {i \in 0..(Len(polygon) - 1) :
            LET a == At(polygon, i)
                b == At(polygon, (i + 1) % Len(polygon))
            IN /\ (a.z > point.z) # (b.z > point.z)
               /\ AgainstEdge(point, a, b) < 0}
    IN Cardinality(crossed) % 2 = 1

\* C7: for every simple polygon with vertices on whole blocks, in either
\* winding order, and every point strictly inside or strictly outside it,
\* isPointInPolygon returns true exactly when the point is inside.
C7_PointInPolygonMatchesGroundTruth ==
    (/\ call.fn = "isPointInPolygon"
     /\ IsSimple(points)
     /\ ~OnBoundaryExactly(call.point, points)) =>
        (ret <=> InsideExactly(call.point, points))

====
